---- MODULE Spec2Model ----
(***************************************************************************)
(* Metadata journaling of libdiskfs: the logger API (journal.c), the       *)
(* bounded queue and its flusher thread (journal_queue.c), the raw writer  *)
(* (journal_writer.c) and the replayer (journal_replayer.c), as a state    *)
(* machine over the shared process state and the raw journal device.       *)
(***************************************************************************)
EXTENDS Integers, Sequences, FiniteSets, TLC

(***************************************************************************)
(* Bounds.  The ring and the queue are scaled down from 2047 slots and     *)
(* 4096 slots; the other bounds cap the environment.                       *)
(***************************************************************************)
JOURNAL_NUM_ENTRIES == 4
JOURNAL_QUEUE_MAX == 2
MaxCalls == 2
MaxBurst == 3
MaxTime == 2
MaxFaults == 1
MaxWrites == 6
MaxBad == 1

(***************************************************************************)
(* Program constants.                                                      *)
(***************************************************************************)
JOURNAL_MAGIC == 1246645296
JOURNAL_VERSION == 1
PAYLOAD_SIZE == 1624
HEADER_RETRIES == 3
SKEW_TOLERANCE_MS == 10000

Callers == {"c1", "c2"}
CallerOrder == <<"c1", "c2">>
Flusher == "flusher"
NoThread == "none"
Durabilities == {"ASYNC", "SYNC"}

\* IGNORE_INODE with an empty ignore list.
IGNORE_INODE_EMPTY(inode) == FALSE

IGNORE_INODE(inode) ==
    \/ inode = 82814 \/ inode = 48803 \/ inode = 49144
    \/ inode = 49142 \/ inode = 48795 \/ inode = 48794

(***************************************************************************)
(* On-disk format.  A payload keeps the fields the writer and the replayer *)
(* read; an entry is magic, version, payload and the trailing CRC; the     *)
(* header is magic, version, the two indices and its CRC.                  *)
(***************************************************************************)
ZeroPayload == [tx_id |-> 0, timestamp_ms |-> 0, ino |-> 0, action |-> ""]

ZeroEntry ==
    [magic |-> 0, version |-> 0, payload |-> ZeroPayload, padding |-> 0, crc32 |-> 0]

ZeroHeader ==
    [magic |-> 0, version |-> 0, start_index |-> 0, end_index |-> 0, crc32 |-> 0]

\* The bytes of a string field, as a number: the empty string is all NULs.
StrBytes(s) == IF s = "" THEN 0 ELSE 1 + Len(s)

\* crc32 (data, len): a checksum folded over the words of the byte range.
RECURSIVE Crc32(_)
Crc32(words) ==
    IF words = <<>> THEN 4093
    ELSE (Crc32(SubSeq(words, 1, Len(words) - 1)) * 33
            + (words[Len(words)] % 65521) + 1) % 65521

PayloadWords(p) == <<p.tx_id, p.timestamp_ms, p.ino, StrBytes(p.action)>>

\* The header with its crc32 field zeroed, as hashed by the writer and readers.
HeaderWords(h) == <<h.magic, h.version, h.start_index, h.end_index, 0>>

\* index_to_offset one slot further on.
index_to_offset_shifted(index) == (index + 1) % JOURNAL_NUM_ENTRIES

index_to_offset(index) == index % JOURNAL_NUM_ENTRIES

\* The entry buffer both write paths build around a payload.
\* MakeEntry without the checksum of the payload.
MakeEntryNoCrc(data) ==
    [magic |-> JOURNAL_MAGIC, version |-> JOURNAL_VERSION,
     payload |-> data, padding |-> 0, crc32 |-> 0]

MakeEntry(data) ==
    [magic |-> JOURNAL_MAGIC, version |-> JOURNAL_VERSION,
     payload |-> data, padding |-> 0, crc32 |-> Crc32(PayloadWords(data))]

FreshDevice ==
    [hdr |-> ZeroHeader, slots |-> [i \in 0..(JOURNAL_NUM_ENTRIES - 1) |-> ZeroEntry]]

(***************************************************************************)
(* Raw writer: pure steps over the device image.                           *)
(***************************************************************************)
HeaderValid(h) ==
    /\ Crc32(HeaderWords(h)) = h.crc32
    /\ h.magic = JOURNAL_MAGIC
    /\ h.version = JOURNAL_VERSION
    /\ h.start_index < JOURNAL_NUM_ENTRIES
    /\ h.end_index < JOURNAL_NUM_ENTRIES

\* initialize_indices with EIO treated like a short read.
initialize_indices_heals_eio(d, rd) ==
    IF rd = "eio" \/ rd = "short" THEN [ok |-> TRUE, start_index |-> 0, end_index |-> 0]
    ELSE IF ~HeaderValid(d.hdr) THEN [ok |-> TRUE, start_index |-> 0, end_index |-> 0]
    ELSE [ok |-> TRUE, start_index |-> d.hdr.start_index,
          end_index |-> d.hdr.end_index]

\* initialize_indices: rd is the outcome of the header pread: "ok", "short"
\* (fewer bytes than the header, or an error other than EIO) or "eio".
initialize_indices(d, rd) ==
    IF rd = "eio" THEN [ok |-> FALSE, start_index |-> 0, end_index |-> 0]
    ELSE IF rd = "short" THEN [ok |-> TRUE, start_index |-> 0, end_index |-> 0]
    ELSE IF ~(/\ Crc32(HeaderWords(d.hdr)) = d.hdr.crc32
              /\ d.hdr.magic = JOURNAL_MAGIC
              /\ d.hdr.version = JOURNAL_VERSION)
         THEN [ok |-> TRUE, start_index |-> 0, end_index |-> 0]
    ELSE IF \/ d.hdr.start_index >= JOURNAL_NUM_ENTRIES
            \/ d.hdr.end_index >= JOURNAL_NUM_ENTRIES
         THEN [ok |-> TRUE, start_index |-> 0, end_index |-> 0]
    ELSE [ok |-> TRUE, start_index |-> d.hdr.start_index,
          end_index |-> d.hdr.end_index]

\* persist_header_with_retry: failed is the number of pwrite attempts that
\* fail before one succeeds (retries or more: every attempt failed).
persist_header_with_retry(d, start_index, end_index, retries, failed) ==
    LET hdr0 == [magic |-> JOURNAL_MAGIC, version |-> JOURNAL_VERSION,
                 start_index |-> start_index, end_index |-> end_index,
                 crc32 |-> 0]
        hdr == [hdr0 EXCEPT !.crc32 = Crc32(HeaderWords(hdr0))]
    IN  IF failed < retries
        THEN [ok |-> TRUE, disk |-> [d EXCEPT !.hdr = hdr]]
        ELSE [ok |-> FALSE, disk |-> d]

\* NextIndex without the wrap at the end of the ring.
NextIndexNoWrap(end_index) == end_index + 1

\* The ring step both write paths take: the index after end_index, and
\* start_index pushed on when that index would run onto it.
NextIndex(end_index) == (end_index + 1) % JOURNAL_NUM_ENTRIES

\* AdvanceStart without the eviction of the oldest entry.
AdvanceStartNever(start_index, end_index) == start_index

AdvanceStart(start_index, end_index) ==
    IF NextIndex(end_index) = start_index
    THEN (start_index + 1) % JOURNAL_NUM_ENTRIES
    ELSE start_index

\* What a short write leaves in a slot: the leading bytes of the new entry
\* and the old trailing bytes, the CRC field among them.
ShortWrite(old, data) ==
    [magic |-> JOURNAL_MAGIC, version |-> JOURNAL_VERSION,
     payload |-> data, padding |-> old.padding, crc32 |-> old.crc32]

\* journal_write_indexed: wr is the outcome of the lseek and the write:
\* "ok", "fail" (nothing reaches the device) or "short" (fewer bytes than an
\* entry are written).
journal_write_indexed(d, data, len, end_index, start_index, wr) ==
    IF len > PAYLOAD_SIZE
    THEN [ok |-> FALSE, disk |-> d,
          start_index |-> start_index, end_index |-> end_index]
    ELSE IF wr = "fail"
    THEN [ok |-> FALSE, disk |-> d,
          start_index |-> AdvanceStart(start_index, end_index),
          end_index |-> end_index]
    ELSE IF wr = "short"
    THEN [ok |-> FALSE,
          disk |-> [d EXCEPT !.slots[index_to_offset(end_index)] =
                        ShortWrite(@, data)],
          start_index |-> AdvanceStart(start_index, end_index),
          end_index |-> end_index]
    ELSE [ok |-> TRUE,
          disk |-> [d EXCEPT !.slots[index_to_offset(end_index)] = MakeEntry(data)],
          start_index |-> AdvanceStart(start_index, end_index),
          end_index |-> NextIndex(end_index)]

(***************************************************************************)
(* Process state.                                                          *)
(***************************************************************************)
VARIABLES
    journal_tx_id,          \* journal.c: the tx_id counter
    now,                    \* the wall clock, as current_time_ms last read it
    journal_device_ready,   \* the readiness flag the monitor toggles
    shutdown_in_progress,   \* journal_queue.c: the queue's shutdown flag
    journal_queue,          \* journal_queue.c: the slots (data, len, used)
    head, tail, count,      \* journal_queue.c: the ring's cursors
    disk,                   \* the raw device: header and entry slots
    sync_write_lock,        \* journal_writer.c: the thread holding the writer lock
    replayed_once,          \* journal_writer.c: the one-shot validation flag
    dropped_txs,            \* journal_writer.c: the writer's drop counter
    sync_fd,                \* journal_writer.c: the cached descriptor (-1: none)
    caller,                 \* per caller: position in journal_log_metadata, locals
    flusher,                \* the flusher thread: position, batch, indices
    shutdown_pc,            \* the thread calling journal_shutdown
    calls,                  \* history: journal_log_metadata calls made
    assigned,               \* history: the tx_ids handed out, in order
    enq_order,              \* history: inodes of the successful enqueues, in order
    enq_before_shutdown,    \* history: inodes enqueued before journal_shutdown
    ever_persisted,         \* history: inodes seen in a persisted range
    faults,                 \* history: injected device failures
    budget,                 \* the environment's caps: calls, device failures, clock
    dropped_events,         \* the drop counter journal_globals.h declares
    flipped,                \* the entry of the persisted range a byte was flipped in
    replayed,               \* what the last run of journal_replay_from_file reported
    monitor,                \* history: what the monitor's last iteration met and did
    written                 \* history: payloads the sequential writer persisted

vars ==
    <<journal_tx_id, now, journal_device_ready, shutdown_in_progress,
      journal_queue, head, tail, count, disk, sync_write_lock, replayed_once,
      dropped_txs, sync_fd, caller, flusher, shutdown_pc, calls, assigned,
      enq_order, enq_before_shutdown, ever_persisted, faults, budget,
      dropped_events, flipped, replayed, monitor, written>>

queue_vars == <<journal_queue, head, tail, count>>
writer_vars == <<disk, sync_write_lock, replayed_once, dropped_txs, sync_fd>>
history_vars ==
    <<calls, assigned, enq_order, enq_before_shutdown, ever_persisted, budget,
      dropped_events, flipped, replayed, monitor>>

\* No byte has been flipped; journal_replay_from_file has not run.
NoFlip == [pos |-> 0, field |-> "none"]
NoReplay == [status |-> "none", stopped_at |-> 0, reason |-> "none", lists |-> {}]

\* The monitor thread has not completed an iteration.
NoProbe == [open_ok |-> FALSE, pread_ok |-> FALSE, signalled |-> FALSE]

IdleCaller ==
    [pc |-> "idle", tmp |-> 0, entry |-> ZeroPayload, durability |-> "ASYNC",
     start_index |-> 0, end_index |-> 0, ret |-> FALSE, io_err |-> FALSE]

IdleFlusher ==
    [pc |-> "wait_ready", batch |-> <<>>, i |-> 0,
     start_index |-> 0, end_index |-> 0]

EmptyQueue ==
    [i \in 0..(JOURNAL_QUEUE_MAX - 1) |->
        [data |-> ZeroPayload, len |-> 0, used |-> FALSE]]

\* The slots of the range [start_index, end_index), in logical order.
RECURSIVE RangeIndices(_, _)
RangeIndices(start_index, end_index) ==
    IF start_index = end_index THEN <<>>
    ELSE <<start_index>>
            \o RangeIndices((start_index + 1) % JOURNAL_NUM_ENTRIES, end_index)

\* The entries a reader finds in the persisted range of a device image.
PersistedEntries(d) ==
    IF HeaderValid(d.hdr)
    THEN LET idx == RangeIndices(d.hdr.start_index, d.hdr.end_index)
         IN  [k \in 1..Len(idx) |-> d.slots[idx[k]]]
    ELSE <<>>

PersistedInos(d) ==
    {PersistedEntries(d)[k].payload.ino : k \in 1..Len(PersistedEntries(d))}

\* Outcomes the device may give an I/O step: failures are budgeted.
IoOutcomes == IF faults < budget.faults THEN {TRUE, FALSE} ELSE {TRUE}
ReadOutcomes == IF faults < budget.faults THEN {"ok", "short", "eio"} ELSE {"ok"}
WriteOutcomes == IF faults < budget.faults THEN {"ok", "fail", "short"} ELSE {"ok"}
HeaderOutcomes == IF faults < budget.faults THEN 0..HEADER_RETRIES ELSE {0}

\* The state after journal_init, on device image d, in environment b.
InitOn(b, d) ==
    /\ budget = b
    /\ journal_tx_id = 1
    /\ now = 1
    /\ journal_device_ready = FALSE
    /\ shutdown_in_progress = FALSE
    /\ journal_queue = EmptyQueue
    /\ head = 0 /\ tail = 0 /\ count = 0
    /\ disk = d
    /\ sync_write_lock = NoThread
    /\ replayed_once = FALSE
    /\ dropped_txs = 0
    /\ sync_fd = -1
    /\ caller = [t \in Callers |-> IdleCaller]
    /\ flusher = IdleFlusher
    /\ shutdown_pc = "idle"
    /\ calls = 0
    /\ assigned = <<>>
    /\ enq_order = <<>>
    /\ enq_before_shutdown = {}
    /\ ever_persisted = {}
    /\ faults = 0
    /\ written = <<>>
    /\ dropped_events = 0
    /\ flipped = NoFlip
    /\ replayed = NoReplay
    /\ monitor = NoProbe

InitWith(b) == InitOn(b, FreshDevice)

\* The concurrent system during a burst within one tick of the millisecond
\* clock, with device failures.
Init == InitWith([calls |-> MaxCalls, faults |-> MaxFaults, time |-> 0])

\* The same with the clock advancing between the calls.
InitClock == InitWith([calls |-> MaxCalls, faults |-> 0, time |-> MaxTime])

\* A longer burst on a device that does not fail.
InitBurst == InitWith([calls |-> MaxBurst, faults |-> 0, time |-> 0])

(***************************************************************************)
(* journal_log_metadata (journal.c).                                       *)
(***************************************************************************)
\* The inode of the node a call logs: one fresh inode per call, or an
\* inode of the ignore list.
NodeInos == {100 + calls + 1, 48803}

\* Idle caller threads hold no state and are interchangeable: a call is
\* taken by the first idle one.
FirstIdle(t) ==
    \E k \in 1..Len(CallerOrder) :
        /\ CallerOrder[k] = t
        /\ \A j \in 1..(k - 1) : caller[CallerOrder[j]].pc # "idle"

\* Lines 150-188: the ignore list, then the load of the tx_id counter.
LogStart(t, ino, durability) ==
    /\ caller[t].pc = "idle"
    /\ FirstIdle(t)
    /\ calls < budget.calls
    /\ calls' = calls + 1
    /\ IF IGNORE_INODE(ino)
       THEN UNCHANGED caller
       ELSE caller' = [caller EXCEPT ![t] =
                    [@ EXCEPT !.pc = "inc", !.tmp = journal_tx_id,
                              !.entry = [ZeroPayload EXCEPT !.ino = ino],
                              !.durability = durability]]
    /\ UNCHANGED <<journal_tx_id, now, journal_device_ready, shutdown_in_progress,
                   queue_vars, writer_vars, flusher, shutdown_pc, assigned,
                   enq_order, enq_before_shutdown, ever_persisted, faults, budget,
                   dropped_events, flipped, replayed, monitor,
                   written>>

\* Lines 188-239: the store of the incremented counter, the timestamp (the
\* wall clock has moved on to some time not before its last reading) and
\* the payload fields.
StampedEntry(entry, tmp, time) ==
    [entry EXCEPT !.tx_id = tmp + 1, !.timestamp_ms = time, !.action = "create"]

\* What current_time_ms may return: the last reading, or a later time up to
\* the horizon of the run.
ClockReadings == {now} \cup (now..budget.time)

LogStamp(t) ==
    /\ caller[t].pc = "inc"
    /\ journal_tx_id' = caller[t].tmp + 1
    /\ \E time \in ClockReadings :
         /\ now' = time
         /\ caller' = [caller EXCEPT ![t] =
                [@ EXCEPT !.pc = "dispatch",
                          !.entry = StampedEntry(@, caller[t].tmp, time)]]
    /\ assigned' = Append(assigned, caller[t].tmp + 1)
    /\ UNCHANGED <<journal_device_ready, shutdown_in_progress, queue_vars,
                   writer_vars, flusher, shutdown_pc, calls, enq_order,
                   enq_before_shutdown, ever_persisted, faults, budget,
                   dropped_events, flipped, replayed, monitor,
                   written>>

\* Line 241: the dispatch test.
\* TakesSyncPath without the test of the device.
TakesSyncPathUnready(ready, durability) == durability = "SYNC"

TakesSyncPath(ready, durability) == ready /\ durability = "SYNC"

\* journal_enqueue (journal_queue.c 75-100), under the queue lock.
\* QueueFull with the capacity test gone.
QueueFullNever == FALSE

QueueFull == count >= JOURNAL_QUEUE_MAX

EnqueuedSlot(data, len) == [data |-> data, len |-> len, used |-> TRUE]

LogEnqueue(t) ==
    /\ caller[t].pc = "dispatch"
    /\ ~TakesSyncPath(journal_device_ready, caller[t].durability)
    /\ IF QueueFull
       THEN UNCHANGED <<queue_vars, enq_order, enq_before_shutdown>>
       ELSE /\ journal_queue' = [journal_queue EXCEPT
                    ![tail] = EnqueuedSlot(caller[t].entry, PAYLOAD_SIZE)]
            /\ tail' = (tail + 1) % JOURNAL_QUEUE_MAX
            /\ count' = count + 1
            /\ head' = head
            /\ enq_order' = Append(enq_order, caller[t].entry.ino)
            /\ enq_before_shutdown' =
                    IF shutdown_pc = "idle"
                    THEN enq_before_shutdown \cup {caller[t].entry.ino}
                    ELSE enq_before_shutdown
    /\ caller' = [caller EXCEPT ![t] = IdleCaller]
    /\ UNCHANGED <<journal_tx_id, now, journal_device_ready, shutdown_in_progress,
                   writer_vars, flusher, shutdown_pc, calls, assigned,
                   ever_persisted, faults, budget,
                   dropped_events, flipped, replayed, monitor,
                   written>>

LogSyncCall(t) ==
    /\ caller[t].pc = "dispatch"
    /\ TakesSyncPath(journal_device_ready, caller[t].durability)
    /\ caller' = [caller EXCEPT ![t].pc = "s_lock"]
    /\ UNCHANGED <<journal_tx_id, now, journal_device_ready, shutdown_in_progress,
                   queue_vars, writer_vars, flusher, shutdown_pc, history_vars,
                   faults, written>>

\* Lines 243-250: back in journal_log_metadata after the synchronous write.
LogReturn(t) ==
    /\ caller[t].pc = "s_ret"
    /\ caller' = [caller EXCEPT ![t] = IdleCaller]
    /\ UNCHANGED <<journal_tx_id, now, journal_device_ready, shutdown_in_progress,
                   queue_vars, writer_vars, flusher, shutdown_pc, history_vars,
                   faults, written>>

(***************************************************************************)
(* journal_write_raw_sync (journal_writer.c 383-451), called by a caller   *)
(* thread.                                                                 *)
(***************************************************************************)
\* get_sync_fd: the cached descriptor, or a fresh open of the device.
get_sync_fd(fd, open_ok) == IF fd >= 0 THEN fd ELSE IF open_ok THEN 3 ELSE -1

\* SyncReturn reporting success whatever happened.
SyncReturnAlwaysTrue(c, ok, io_err) ==
    [c EXCEPT !.pc = "s_ret", !.ret = TRUE, !.io_err = io_err]

SyncReturn(c, ok, io_err) ==
    [c EXCEPT !.pc = "s_ret", !.ret = ok, !.io_err = io_err]

\* LockFree without the mutual exclusion.
LockFreeAlways(lock) == TRUE

\* Whether a thread may take the writer lock.
LockFree(lock) == lock = NoThread

\* Lines 386-406: the lock, the replayed_once test, the descriptor and the
\* indices.
SyncBegin(t) ==
    /\ caller[t].pc = "s_lock"
    /\ LockFree(sync_write_lock)
    /\ IF ~replayed_once
       THEN /\ caller' = [caller EXCEPT ![t] = SyncReturn(@, FALSE, FALSE)]
            /\ UNCHANGED <<sync_write_lock, sync_fd, faults>>
       ELSE \E open_ok \in IoOutcomes, rd \in ReadOutcomes :
            LET fd == get_sync_fd(sync_fd, open_ok)
                r == initialize_indices(disk, rd)
            IN  /\ (sync_fd >= 0 => open_ok)
                /\ (fd < 0 => rd = "ok")
                /\ sync_fd' = fd
                /\ faults' = IF fd < 0 \/ rd # "ok" THEN faults + 1 ELSE faults
                /\ IF fd < 0 \/ ~r.ok
                   THEN /\ caller' = [caller EXCEPT ![t] = SyncReturn(@, FALSE, TRUE)]
                        /\ UNCHANGED sync_write_lock
                   ELSE /\ caller' = [caller EXCEPT ![t] =
                                [@ EXCEPT !.pc = "s_entry",
                                          !.start_index = r.start_index,
                                          !.end_index = r.end_index]]
                        /\ sync_write_lock' = t
    /\ UNCHANGED <<journal_tx_id, now, journal_device_ready, shutdown_in_progress,
                   queue_vars, disk, replayed_once, dropped_txs, flusher,
                   shutdown_pc, history_vars, written>>

\* Lines 408-436: the entry buffer, the lseek and the write at end_index.
SyncWriteEntry(t) ==
    /\ caller[t].pc = "s_entry"
    /\ \E wr \in WriteOutcomes :
         /\ faults' = IF wr = "ok" THEN faults ELSE faults + 1
         /\ IF wr = "ok"
            THEN /\ disk' = [disk EXCEPT
                        !.slots[index_to_offset(caller[t].end_index)] =
                            MakeEntry(caller[t].entry)]
                 /\ caller' = [caller EXCEPT ![t].pc = "s_header"]
                 /\ UNCHANGED sync_write_lock
            ELSE /\ caller' = [caller EXCEPT ![t] = SyncReturn(@, FALSE, TRUE)]
                 /\ sync_write_lock' = NoThread
                 /\ disk' = IF wr = "short"
                            THEN [disk EXCEPT
                                    !.slots[index_to_offset(caller[t].end_index)] =
                                        ShortWrite(@, caller[t].entry)]
                            ELSE disk
    /\ ever_persisted' = ever_persisted \cup PersistedInos(disk')
    /\ UNCHANGED <<journal_tx_id, now, journal_device_ready, shutdown_in_progress,
                   queue_vars, replayed_once, dropped_txs, sync_fd, flusher,
                   shutdown_pc, calls, assigned, enq_order, enq_before_shutdown,
                   budget, dropped_events, flipped, replayed, monitor,
                   written>>

\* Lines 438-450: the ring step, the header and the unlock.
SyncPersist(t) ==
    /\ caller[t].pc = "s_header"
    /\ \E failed \in HeaderOutcomes :
         LET next_index == NextIndex(caller[t].end_index)
             start_index == AdvanceStart(caller[t].start_index, caller[t].end_index)
             r == persist_header_with_retry(disk, start_index, next_index,
                                            HEADER_RETRIES, failed)
         IN  /\ disk' = r.disk
             /\ faults' = IF r.ok THEN faults ELSE faults + 1
             /\ caller' = [caller EXCEPT ![t] = SyncReturn(@, r.ok, ~r.ok)]
    /\ sync_write_lock' = NoThread
    /\ ever_persisted' = ever_persisted \cup PersistedInos(disk')
    /\ UNCHANGED <<journal_tx_id, now, journal_device_ready, shutdown_in_progress,
                   queue_vars, replayed_once, dropped_txs, sync_fd, flusher,
                   shutdown_pc, calls, assigned, enq_order, enq_before_shutdown,
                   budget, dropped_events, flipped, replayed, monitor,
                   written>>

(***************************************************************************)
(* journal_flusher_thread (journal_queue.c 110-175).                       *)
(***************************************************************************)
\* Lines 116-119: poll until the device is ready or shutdown is under way.
FlusherWaitReady ==
    /\ flusher.pc = "wait_ready"
    /\ journal_device_ready \/ shutdown_in_progress
    /\ flusher' = [flusher EXCEPT !.pc = "wait_queue"]
    /\ UNCHANGED <<journal_tx_id, now, journal_device_ready, shutdown_in_progress,
                   queue_vars, writer_vars, caller, shutdown_pc, history_vars,
                   faults, written>>

\* Whether the flusher leaves for good: line 126.
FlusherExits == shutdown_in_progress /\ count = 0

\* Lines 121-139: wait for work or shutdown, then exit or start coalescing.
FlusherWaitQueue ==
    /\ flusher.pc = "wait_queue"
    /\ count > 0 \/ shutdown_in_progress
    /\ flusher' = [flusher EXCEPT !.pc = IF FlusherExits THEN "exited" ELSE "coalesce"]
    /\ UNCHANGED <<journal_tx_id, now, journal_device_ready, shutdown_in_progress,
                   queue_vars, writer_vars, caller, shutdown_pc, history_vars,
                   faults, written>>

\* Lines 162-168: the batch of slot pointers, taken from head.
DrainBatch ==
    [k \in 1..count |->
        [data |-> (head + k - 1) % JOURNAL_QUEUE_MAX,
         len |-> journal_queue[(head + k - 1) % JOURNAL_QUEUE_MAX].len]]

\* FlusherLeaveWait without the test of the device at line 153.
FlusherLeaveWaitNoTest(p) ==
    /\ flusher.pc = p
    /\ flusher' = [flusher EXCEPT !.pc = "w_lock", !.batch = DrainBatch]
    /\ journal_queue' =
            [s \in DOMAIN journal_queue |->
                IF \E k \in 1..count : DrainBatch[k].data = s
                THEN [journal_queue[s] EXCEPT !.used = FALSE]
                ELSE journal_queue[s]]
    /\ head' = (head + count) % JOURNAL_QUEUE_MAX
    /\ count' = 0
    /\ tail' = tail
    /\ UNCHANGED <<journal_tx_id, now, journal_device_ready, shutdown_in_progress,
                   writer_vars, caller, shutdown_pc, history_vars, faults, written>>

\* Lines 141-171, from position p of the coalescing loop: the loop ends
\* (deadline reached, full queue or shutdown); the device test; the drain.
FlusherLeaveWait(p) ==
    /\ flusher.pc = p
    /\ IF ~journal_device_ready
       THEN /\ flusher' = [flusher EXCEPT !.pc = "wait_ready"]
            /\ UNCHANGED queue_vars
       ELSE /\ flusher' = [flusher EXCEPT !.pc = "w_lock", !.batch = DrainBatch]
            /\ journal_queue' =
                    [s \in DOMAIN journal_queue |->
                        IF \E k \in 1..count : DrainBatch[k].data = s
                        THEN [journal_queue[s] EXCEPT !.used = FALSE]
                        ELSE journal_queue[s]]
            /\ head' = (head + count) % JOURNAL_QUEUE_MAX
            /\ count' = 0
            /\ tail' = tail
    /\ UNCHANGED <<journal_tx_id, now, journal_device_ready, shutdown_in_progress,
                   writer_vars, caller, shutdown_pc, history_vars, faults, written>>

\* The coalescing wait seen as one step: the deadline may be reached at any
\* moment.
FlusherWake == FlusherLeaveWait("coalesce")

(***************************************************************************)
(* journal_write_raw (journal_writer.c 453-519), called by the flusher.    *)
(***************************************************************************)
FlusherDone == [flusher EXCEPT !.pc = "wait_ready", !.batch = <<>>, !.i = 0,
                               !.start_index = 0, !.end_index = 0]

\* What a failed batch adds to the drop counter.
DroppedOnFailure(batch_count, i) == batch_count

\* WriteRawBegin with the one-shot flag set on the failure returns as well.
WriteRawBeginSpendsShot ==
    /\ flusher.pc = "w_lock"
    /\ LockFree(sync_write_lock)
    /\ \E open_ok \in IoOutcomes, rd \in ReadOutcomes :
         LET fd == get_sync_fd(sync_fd, open_ok)
             r == initialize_indices(disk, rd)
         IN  /\ (sync_fd >= 0 => open_ok)
             /\ (fd < 0 => rd = "ok")
             /\ sync_fd' = fd
             /\ faults' = IF fd < 0 \/ rd # "ok" THEN faults + 1 ELSE faults
             /\ IF fd < 0 \/ ~r.ok
                THEN /\ dropped_txs' = dropped_txs
                            + DroppedOnFailure(Len(flusher.batch), 0)
                     /\ flusher' = FlusherDone
                     /\ replayed_once' = TRUE
                     /\ UNCHANGED sync_write_lock
                ELSE /\ flusher' = [flusher EXCEPT !.pc = "w_entry", !.i = 1,
                                        !.start_index = r.start_index,
                                        !.end_index = r.end_index]
                     /\ sync_write_lock' = Flusher
                     /\ replayed_once' = TRUE
                     /\ UNCHANGED dropped_txs
    /\ UNCHANGED <<journal_tx_id, now, journal_device_ready, shutdown_in_progress,
                   queue_vars, disk, caller, shutdown_pc, history_vars, written>>

\* Lines 456-486: the lock, the descriptor, the indices, the one-shot replay.
WriteRawBegin ==
    /\ flusher.pc = "w_lock"
    /\ LockFree(sync_write_lock)
    /\ \E open_ok \in IoOutcomes, rd \in ReadOutcomes :
         LET fd == get_sync_fd(sync_fd, open_ok)
             r == initialize_indices(disk, rd)
         IN  /\ (sync_fd >= 0 => open_ok)
             /\ (fd < 0 => rd = "ok")
             /\ sync_fd' = fd
             /\ faults' = IF fd < 0 \/ rd # "ok" THEN faults + 1 ELSE faults
             /\ IF fd < 0 \/ ~r.ok
                THEN /\ dropped_txs' = dropped_txs
                            + DroppedOnFailure(Len(flusher.batch), 0)
                     /\ flusher' = FlusherDone
                     /\ UNCHANGED <<sync_write_lock, replayed_once>>
                ELSE /\ flusher' = [flusher EXCEPT !.pc = "w_entry", !.i = 1,
                                        !.start_index = r.start_index,
                                        !.end_index = r.end_index]
                     /\ sync_write_lock' = Flusher
                     /\ replayed_once' = TRUE
                     /\ UNCHANGED dropped_txs
    /\ UNCHANGED <<journal_tx_id, now, journal_device_ready, shutdown_in_progress,
                   queue_vars, disk, caller, shutdown_pc, history_vars, written>>

\* Lines 488-509: one entry of the batch, read through its slot pointer.
WriteRawEntry ==
    /\ flusher.pc = "w_entry"
    /\ flusher.i <= Len(flusher.batch)
    /\ \E wr \in WriteOutcomes :
         LET e == flusher.batch[flusher.i]
             r == journal_write_indexed(disk, journal_queue[e.data].data,
                                        PAYLOAD_SIZE, flusher.end_index,
                                        flusher.start_index, wr)
         IN  /\ faults' = IF wr = "ok" THEN faults ELSE faults + 1
             /\ IF e.len # PAYLOAD_SIZE \/ ~r.ok
                THEN /\ dropped_txs' = dropped_txs
                            + DroppedOnFailure(Len(flusher.batch), flusher.i - 1)
                     /\ flusher' = FlusherDone
                     /\ sync_write_lock' = NoThread
                     /\ disk' = IF e.len # PAYLOAD_SIZE THEN disk ELSE r.disk
                ELSE /\ disk' = r.disk
                     /\ flusher' = [flusher EXCEPT !.i = @ + 1,
                                        !.start_index = r.start_index,
                                        !.end_index = r.end_index]
                     /\ UNCHANGED <<dropped_txs, sync_write_lock>>
    /\ ever_persisted' = ever_persisted \cup PersistedInos(disk')
    /\ UNCHANGED <<journal_tx_id, now, journal_device_ready, shutdown_in_progress,
                   queue_vars, replayed_once, sync_fd, caller, shutdown_pc, calls,
                   assigned, enq_order, enq_before_shutdown, budget,
                   dropped_events, flipped, replayed, monitor,
                   written>>

\* Lines 511-518: the header, then the unlock whatever the header's fate.
WriteRawPersist ==
    /\ flusher.pc = "w_entry"
    /\ flusher.i > Len(flusher.batch)
    /\ \E failed \in HeaderOutcomes :
         LET r == persist_header_with_retry(disk, flusher.start_index,
                                            flusher.end_index, HEADER_RETRIES, failed)
         IN  /\ disk' = r.disk
             /\ faults' = IF r.ok THEN faults ELSE faults + 1
    /\ flusher' = FlusherDone
    /\ sync_write_lock' = NoThread
    /\ ever_persisted' = ever_persisted \cup PersistedInos(disk')
    /\ UNCHANGED <<journal_tx_id, now, journal_device_ready, shutdown_in_progress,
                   queue_vars, replayed_once, dropped_txs, sync_fd, caller,
                   shutdown_pc, calls, assigned, enq_order, enq_before_shutdown,
                   budget, dropped_events, flipped, replayed, monitor,
                   written>>

(***************************************************************************)
(* journal_device_monitor_thread (journal.c 58-103): one iteration.        *)
(***************************************************************************)
\* MonitorReady with the flag raised by the open alone.
MonitorReadyNoProbe(ready, open_ok, pread_ok) == open_ok

MonitorReady(ready, open_ok, pread_ok) ==
    IF open_ok
    THEN (IF ~ready THEN pread_ok ELSE ready)
    ELSE FALSE

\* The effect of one iteration on the program's own state.
MonitorStep(open_ok, pread_ok) ==
    /\ journal_device_ready' = MonitorReady(journal_device_ready, open_ok, pread_ok)
    /\ UNCHANGED <<journal_tx_id, now, shutdown_in_progress, queue_vars,
                   writer_vars, caller, flusher, shutdown_pc, calls, assigned,
                   enq_order, enq_before_shutdown, ever_persisted, budget,
                   dropped_events, flipped, replayed, written>>

MonitorIter(open_ok, pread_ok) ==
    /\ MonitorStep(open_ok, pread_ok)
    /\ UNCHANGED <<faults, monitor>>

(***************************************************************************)
(* journal_shutdown (journal.c 131-138) and journal_queue_shutdown.        *)
(***************************************************************************)
ShutdownCall ==
    /\ shutdown_pc = "idle"
    /\ shutdown_in_progress' = TRUE
    /\ shutdown_pc' = "joining"
    /\ UNCHANGED <<journal_tx_id, now, journal_device_ready, queue_vars,
                   writer_vars, caller, flusher, history_vars, faults, written>>

\* pthread_join returns once the flusher thread has returned.
ShutdownJoin ==
    /\ shutdown_pc = "joining"
    /\ flusher.pc = "exited"
    /\ shutdown_pc' = "returned"
    /\ UNCHANGED <<journal_tx_id, now, journal_device_ready, shutdown_in_progress,
                   queue_vars, writer_vars, caller, flusher, history_vars, faults,
                   written>>

Next ==
    \/ \E t \in Callers, ino \in NodeInos, d \in Durabilities : LogStart(t, ino, d)
    \/ \E t \in Callers : LogStamp(t)
    \/ \E t \in Callers : LogEnqueue(t)
    \/ \E t \in Callers : LogSyncCall(t)
    \/ \E t \in Callers : LogReturn(t)
    \/ \E t \in Callers : SyncBegin(t)
    \/ \E t \in Callers : SyncWriteEntry(t)
    \/ \E t \in Callers : SyncPersist(t)
    \/ FlusherWaitReady
    \/ FlusherWaitQueue
    \/ FlusherWake
    \/ WriteRawBegin
    \/ WriteRawEntry
    \/ WriteRawPersist
    \/ \E open_ok \in BOOLEAN, pread_ok \in BOOLEAN : MonitorIter(open_ok, pread_ok)
    \/ ShutdownCall
    \/ ShutdownJoin

Spec == Init /\ [][Next]_vars

SpecClock == InitClock /\ [][Next]_vars

SpecBurst == InitBurst /\ [][Next]_vars

(***************************************************************************)
(* journal_replay_from_file (journal_replayer.c 86-216).                   *)
(***************************************************************************)
\* compare_entries_by_time_then_txid: a sorts before b, or ties with it.
EntryLeq(a, b) ==
    \/ a.timestamp_ms < b.timestamp_ms
    \/ a.timestamp_ms = b.timestamp_ms /\ a.tx_id <= b.tx_id

\* sort_global_entries: qsort leaves any arrangement of the list that the
\* comparison accepts (ties in either order).
SortedArrangements(list) ==
    LET n == Len(list)
        perms == {f \in [1..n -> 1..n] : \A i, j \in 1..n : i # j => f[i] # f[j]}
    IN  {[k \in 1..n |-> list[f[k]]] : f \in
            {g \in perms : \A k \in 1..(n - 1) : EntryLeq(list[g[k]], list[g[k + 1]])}}

\* EntryAccepted without the comparison of the stored CRC.
EntryAcceptedNoCrc(e) ==
    /\ e.magic = JOURNAL_MAGIC
    /\ e.version = JOURNAL_VERSION
    /\ e.payload.action # ""
    /\ e.payload.ino # 0

\* Lines 144-187: the checks on one entry read from the device.
EntryAccepted(e) ==
    /\ e.magic = JOURNAL_MAGIC
    /\ e.version = JOURNAL_VERSION
    /\ Crc32(PayloadWords(e.payload)) = e.crc32
    /\ e.payload.action # ""
    /\ e.payload.ino # 0

\* ReplayWalk stepping over an entry that fails a check instead of stopping.
RECURSIVE ReplayWalkSkipsBad(_, _, _, _, _)
ReplayWalkSkipsBad(d, index, end_index, reads_ok, list) ==
    IF index = end_index THEN [all_good |-> TRUE, list |-> list]
    ELSE IF reads_ok = 0 THEN [all_good |-> TRUE, list |-> list]
    ELSE IF ~EntryAccepted(d.slots[index_to_offset(index)])
         THEN ReplayWalkSkipsBad(d, (index + 1) % JOURNAL_NUM_ENTRIES, end_index,
                                 reads_ok - 1, list)
    ELSE ReplayWalkSkipsBad(d, (index + 1) % JOURNAL_NUM_ENTRIES, end_index,
                            reads_ok - 1,
                            Append(list, d.slots[index_to_offset(index)].payload))

\* Lines 132-201: the walk from index to end_index; reads_ok preads succeed
\* before one comes back short.
RECURSIVE ReplayWalk(_, _, _, _, _)
ReplayWalk(d, index, end_index, reads_ok, list) ==
    IF index = end_index THEN [all_good |-> TRUE, list |-> list]
    ELSE IF reads_ok = 0 THEN [all_good |-> TRUE, list |-> list]
    ELSE IF ~EntryAccepted(d.slots[index_to_offset(index)])
         THEN [all_good |-> FALSE, list |-> list]
    ELSE ReplayWalk(d, (index + 1) % JOURNAL_NUM_ENTRIES, end_index, reads_ok - 1,
                    Append(list, d.slots[index_to_offset(index)].payload))

\* The replay of a device image: its verdict and the lists it may end with.
journal_replay_from_file(d, reads_ok) ==
    IF ~(/\ Crc32(HeaderWords(d.hdr)) = d.hdr.crc32
         /\ d.hdr.magic = JOURNAL_MAGIC
         /\ d.hdr.version = JOURNAL_VERSION)
    THEN [status |-> "header_invalid", lists |-> {}]
    ELSE IF \/ d.hdr.start_index >= JOURNAL_NUM_ENTRIES
            \/ d.hdr.end_index >= JOURNAL_NUM_ENTRIES
    THEN [status |-> "out_of_bounds", lists |-> {}]
    ELSE LET w == ReplayWalk(d, d.hdr.start_index, d.hdr.end_index, reads_ok, <<>>)
         IN  IF w.all_good
             THEN [status |-> "ok", lists |-> SortedArrangements(w.list)]
             ELSE [status |-> "failed", lists |-> {}]

\* Lines 144-187: the first check an entry fails, in the order the walk
\* makes them.
EntryFailure(e) ==
    IF e.magic # JOURNAL_MAGIC THEN "bad_magic"
    ELSE IF e.version # JOURNAL_VERSION THEN "bad_version"
    ELSE IF Crc32(PayloadWords(e.payload)) # e.crc32 THEN "crc_mismatch"
    ELSE IF e.payload.action = "" THEN "bad_action"
    ELSE IF e.payload.ino = 0 THEN "bad_ino"
    ELSE "ok"

\* What a run of journal_replay_from_file with every pread succeeding logs:
\* its verdict and, when the walk broke off, the position in the range
\* (from 1) of the entry it stopped at and the check that entry failed.
ReplayReport(d) ==
    LET r == journal_replay_from_file(d, JOURNAL_NUM_ENTRIES)
        w == ReplayWalk(d, d.hdr.start_index, d.hdr.end_index,
                        JOURNAL_NUM_ENTRIES, <<>>)
    IN  IF r.status # "failed"
        THEN [status |-> r.status, stopped_at |-> 0, reason |-> "none",
              lists |-> r.lists]
        ELSE [status |-> "failed", stopped_at |-> Len(w.list) + 1,
              reason |-> EntryFailure(
                           d.slots[index_to_offset(d.hdr.start_index + Len(w.list))]),
              lists |-> {}]

(***************************************************************************)
(* The writer and the replayer alone: one thread issues batch writes and   *)
(* synchronous writes to a fresh device that does not fail.                *)
(***************************************************************************)
\* journal_write_raw's loop over the batch (lines 488-509), every write
\* succeeding.
RECURSIVE WriteBatch(_, _, _, _)
WriteBatch(d, entries, start_index, end_index) ==
    IF entries = <<>>
    THEN [disk |-> d, start_index |-> start_index, end_index |-> end_index]
    ELSE LET r == journal_write_indexed(d, Head(entries), PAYLOAD_SIZE,
                                        end_index, start_index, "ok")
         IN  WriteBatch(r.disk, Tail(entries), r.start_index, r.end_index)

\* journal_write_raw (lines 453-519) as one step.
journal_write_raw(d, entries) ==
    LET r == initialize_indices(d, "ok")
        w == WriteBatch(d, entries, r.start_index, r.end_index)
    IN  persist_header_with_retry(w.disk, w.start_index, w.end_index,
                                  HEADER_RETRIES, 0).disk

\* journal_write_raw_sync that never pushes start_index on.
journal_write_raw_sync_keeps_start(d, payload) ==
    LET r == initialize_indices(d, "ok")
        d1 == [d EXCEPT !.slots[index_to_offset(r.end_index)] = MakeEntry(payload)]
    IN  persist_header_with_retry(d1, r.start_index, NextIndex(r.end_index),
                                  HEADER_RETRIES, 0).disk

\* journal_write_raw_sync (lines 383-451) as one step, past the
\* replayed_once test.
journal_write_raw_sync(d, payload) ==
    LET r == initialize_indices(d, "ok")
        d1 == [d EXCEPT !.slots[index_to_offset(r.end_index)] = MakeEntry(payload)]
    IN  persist_header_with_retry(d1, AdvanceStart(r.start_index, r.end_index),
                                  NextIndex(r.end_index), HEADER_RETRIES, 0).disk

PayloadKinds == {"sane", "no_action", "no_ino"}

\* The n-th payload handed to the writer.
NewPayload(n, time, kind) ==
    [tx_id |-> n, timestamp_ms |-> time,
     ino |-> IF kind = "no_ino" THEN 0 ELSE 100 + n,
     action |-> IF kind = "no_action" THEN "" ELSE "create"]

PayloadSane(p) == p.action # "" /\ p.ino # 0

BadCount(list) == Cardinality({k \in 1..Len(list) : ~PayloadSane(list[k])})

seq_unchanged ==
    UNCHANGED <<journal_tx_id, now, journal_device_ready, shutdown_in_progress,
                queue_vars, sync_write_lock, dropped_txs, sync_fd, caller, flusher,
                shutdown_pc, history_vars, faults>>

SeqBatch(entries) ==
    /\ Len(written) + Len(entries) <= MaxWrites
    /\ BadCount(written \o entries) <= MaxBad
    /\ disk' = journal_write_raw(disk, entries)
    /\ replayed_once' = TRUE
    /\ written' = written \o entries
    /\ seq_unchanged

SeqSync(payload) ==
    /\ Len(written) + 1 <= MaxWrites
    /\ BadCount(Append(written, payload)) <= MaxBad
    /\ IF ~replayed_once
       THEN UNCHANGED <<disk, written>>
       ELSE /\ disk' = journal_write_raw_sync(disk, payload)
            /\ written' = Append(written, payload)
    /\ UNCHANGED replayed_once
    /\ seq_unchanged

InitWriter == InitWith([calls |-> 0, faults |-> 0, time |-> 0])

NextWriter ==
    \/ \E t1 \in 1..MaxTime, k1 \in PayloadKinds :
         SeqBatch(<<NewPayload(Len(written) + 1, t1, k1)>>)
    \/ \E t1 \in 1..MaxTime, k1 \in PayloadKinds,
          t2 \in 1..MaxTime, k2 \in PayloadKinds :
         SeqBatch(<<NewPayload(Len(written) + 1, t1, k1),
                    NewPayload(Len(written) + 2, t2, k2)>>)
    \/ \E t1 \in 1..MaxTime, k1 \in PayloadKinds :
         SeqSync(NewPayload(Len(written) + 1, t1, k1))

SpecWriter == InitWriter /\ [][NextWriter]_vars

(***************************************************************************)
(* Properties of the writer and the replayer (SpecWriter).                 *)
(***************************************************************************)
Replayed == journal_replay_from_file(disk, JOURNAL_NUM_ENTRIES)

\* Every payload passes the replayer's sanity checks and the list is in
\* strictly increasing (timestamp_ms, tx_id) order.
SaneAndOrdered(list) ==
    /\ \A k \in 1..Len(list) : PayloadSane(list[k])
    /\ \A k \in 1..(Len(list) - 1) :
         \/ list[k].timestamp_ms < list[k + 1].timestamp_ms
         \/ /\ list[k].timestamp_ms = list[k + 1].timestamp_ms
            /\ list[k].tx_id < list[k + 1].tx_id

LastOf(list, n) == SubSeq(list, Len(list) - n + 1, Len(list))

\* C6 as stated: from an empty log, for any sequence of payloads that fits
\* in the ring and was written without I/O error, the replay yields exactly
\* that sequence in order.
C6_RoundTripAnySequence ==
    (replayed_once /\ Len(written) <= JOURNAL_NUM_ENTRIES)
        => (Replayed.status = "ok" /\ Replayed.lists = {written})

\* C6: from an empty log, a sequence of at most N-1 payloads, each with a
\* non-empty action and a non-zero inode and in strictly increasing
\* (timestamp_ms, tx_id) order, written without I/O error, replays as exactly
\* that sequence in order.
C6_RoundTrip ==
    (replayed_once /\ Len(written) <= JOURNAL_NUM_ENTRIES - 1 /\ SaneAndOrdered(written))
        => (Replayed.status = "ok" /\ Replayed.lists = {written})

C6_Witness ==
    /\ Len(written) = JOURNAL_NUM_ENTRIES - 1
    /\ SaneAndOrdered(written)
    /\ written[1].timestamp_ms < written[Len(written)].timestamp_ms
    /\ Replayed.status = "ok"
    /\ Replayed.lists = {written}

\* C7 as stated: after N + k payloads the log holds the last N; with N = 4
\* and six payloads the replay yields tx 3, 4, 5, 6 and the header has
\* start_index = 2 and end_index = 2.
C7_RingKeepsLastN ==
    (SaneAndOrdered(written) /\ Len(written) >= JOURNAL_NUM_ENTRIES)
        => /\ Replayed.status = "ok"
           /\ Replayed.lists = {LastOf(written, JOURNAL_NUM_ENTRIES)}
           /\ (JOURNAL_NUM_ENTRIES = 4 /\ Len(written) = 6)
                => (disk.hdr.start_index = 2 /\ disk.hdr.end_index = 2)

\* C7: once N - 1 or more payloads have been written the log holds exactly
\* the last N - 1 of them, in order, and start_index is one past end_index;
\* with N = 4 and six payloads tx 1..6 the replay yields tx 4, 5, 6 and the
\* header has start_index = 3 and end_index = 2.
C7_RingEviction ==
    (SaneAndOrdered(written) /\ Len(written) >= JOURNAL_NUM_ENTRIES - 1)
        => /\ Replayed.status = "ok"
           /\ Replayed.lists = {LastOf(written, JOURNAL_NUM_ENTRIES - 1)}
           /\ disk.hdr.start_index = (disk.hdr.end_index + 1) % JOURNAL_NUM_ENTRIES
           /\ disk.hdr.end_index = Len(written) % JOURNAL_NUM_ENTRIES
           /\ (JOURNAL_NUM_ENTRIES = 4 /\ Len(written) = 6)
                => /\ disk.hdr.start_index = 3
                   /\ disk.hdr.end_index = 2
                   /\ \A l \in Replayed.lists :
                        [k \in 1..Len(l) |-> l[k].tx_id] = <<4, 5, 6>>

C7_Witness ==
    /\ SaneAndOrdered(written)
    /\ Len(written) >= JOURNAL_NUM_ENTRIES + 2
    /\ Replayed.lists = {LastOf(written, JOURNAL_NUM_ENTRIES - 1)}
    /\ disk.hdr.start_index = (disk.hdr.end_index + 1) % JOURNAL_NUM_ENTRIES

(***************************************************************************)
(* Properties of the logger, the queue, the flusher and the writer.        *)
(***************************************************************************)
Persisted == PersistedEntries(disk)

\* C1: any two consecutive entries of the on-disk range have non-decreasing
\* timestamp_ms and, when the timestamps are equal, strictly increasing
\* tx_id, whatever the interleaving of the callers with the flusher.
C1_OnDiskOrderMatchesStamps ==
    \A k \in 1..(Len(Persisted) - 1) :
        /\ Persisted[k].payload.timestamp_ms <= Persisted[k + 1].payload.timestamp_ms
        /\ (Persisted[k].payload.timestamp_ms = Persisted[k + 1].payload.timestamp_ms
              => Persisted[k].payload.tx_id < Persisted[k + 1].payload.tx_id)

\* Position of the payload of inode ino in the order of successful enqueues
\* (0 when it was never enqueued).  Each call logs a distinct inode.
EnqPos(ino) ==
    IF \E k \in 1..Len(enq_order) : enq_order[k] = ino
    THEN CHOOSE k \in 1..Len(enq_order) : enq_order[k] = ino
    ELSE 0

\* C2: on the asynchronous path, a payload enqueued before another precedes
\* it in the on-disk region as well.
C2_EnqueueOrderIsDiskOrder ==
    \A i, j \in 1..Len(Persisted) :
        (/\ i < j
         /\ EnqPos(Persisted[i].payload.ino) > 0
         /\ EnqPos(Persisted[j].payload.ino) > 0)
            => EnqPos(Persisted[i].payload.ino) < EnqPos(Persisted[j].payload.ino)

\* C3: the tx_ids handed to ingested events are pairwise distinct and go up
\* by one from each ingested event to the next.
C3_TxIdsDistinctContiguous ==
    /\ \A i, j \in 1..Len(assigned) : i # j => assigned[i] # assigned[j]
    /\ \A k \in 1..(Len(assigned) - 1) : assigned[k + 1] = assigned[k] + 1

\* C4: once journal_shutdown has returned, every payload enqueued before the
\* shutdown call has been in the persisted range or is accounted for by the
\* dropped counter.
C4_ShutdownDrainsOrCounts ==
    shutdown_pc = "returned"
        => Cardinality(enq_before_shutdown \ ever_persisted) <= dropped_txs

\* C9: the synchronous path fails only when the device is not ready or an
\* I/O step fails; a SYNC call on a ready device whose I/O succeeds writes
\* its entry, also as the very first write on a fresh device.
C9_SyncFailsOnlyOnIoOrNotReady ==
    \A t \in Callers :
        (caller[t].pc = "s_ret" /\ ~caller[t].ret)
            => (caller[t].io_err \/ ~journal_device_ready)

\* The threads between the acquisition and the release of sync_write_lock.
InWriterSection ==
    {t \in Callers : caller[t].pc \in {"s_entry", "s_header"}}
        \cup (IF flusher.pc = "w_entry" THEN {Flusher} ELSE {})

\* C10: at most one thread is between acquiring and releasing the writer
\* lock, and the lock is held exactly while a thread is inside either write
\* function, so every return path has released it.
C10_SingleWriter ==
    /\ Cardinality(InWriterSection) <= 1
    /\ \A t \in Callers \cup {Flusher} : (sync_write_lock = t) <=> (t \in InWriterSection)
    /\ (sync_write_lock = NoThread) <=> (InWriterSection = {})

C10_Witness ==
    /\ flusher.pc = "w_entry"
    /\ sync_write_lock = Flusher
    /\ \E t \in Callers : caller[t].pc = "s_lock"

\* The newest entry of the persisted range of d holds payload, with valid
\* magic, version and CRC.
NewestEntryIs(d, payload) ==
    /\ HeaderValid(d.hdr)
    /\ d.hdr.start_index # d.hdr.end_index
    /\ LET e == d.slots[(d.hdr.end_index + JOURNAL_NUM_ENTRIES - 1) % JOURNAL_NUM_ENTRIES]
       IN  /\ e.magic = JOURNAL_MAGIC
           /\ e.version = JOURNAL_VERSION
           /\ e.crc32 = Crc32(PayloadWords(e.payload))
           /\ e.payload = payload

\* C8: when journal_write_raw_sync returns success, the persisted range
\* holds the payload as its newest entry, slot (end_index - 1) mod N, with
\* valid magic, version and CRC.
C8_SyncSuccessIsNewest ==
    [][\A t \in Callers :
         (caller[t].pc # "s_ret" /\ caller'[t].pc = "s_ret" /\ caller'[t].ret)
            => NewestEntryIs(disk', caller[t].entry)]_vars

C8_Witness ==
    \E t \in Callers :
        /\ caller[t].pc = "s_ret"
        /\ caller[t].ret
        /\ NewestEntryIs(disk, caller[t].entry)
        /\ Len(Persisted) >= 2

(***************************************************************************)
(* Termination of the shutdown: every thread that can take a step is       *)
(* eventually scheduled.                                                   *)
(***************************************************************************)
FlusherNext ==
    \/ FlusherWaitReady
    \/ FlusherWaitQueue
    \/ FlusherWake
    \/ WriteRawBegin
    \/ WriteRawEntry
    \/ WriteRawPersist

CallerNext(t) ==
    \/ LogStamp(t)
    \/ LogEnqueue(t)
    \/ LogSyncCall(t)
    \/ LogReturn(t)
    \/ SyncBegin(t)
    \/ SyncWriteEntry(t)
    \/ SyncPersist(t)

SpecFair ==
    /\ Spec
    /\ WF_vars(FlusherNext)
    /\ WF_vars(ShutdownJoin)
    /\ \A t \in Callers : WF_vars(CallerNext(t))

\* C5: under fair scheduling, once journal_shutdown has set the shutdown
\* flag and signalled the condition, the flusher drains the queue and exits
\* and the join completes, whatever the queue holds and whatever
\* device_ready is.
C5_ShutdownTerminates ==
    (shutdown_pc = "joining") ~> (shutdown_pc = "returned")

(***************************************************************************)
(* The writer alone on a device whose writes may fail.                     *)
(***************************************************************************)
\* journal_write_raw (lines 453-519) when only the first good entry writes
\* succeed and the next one has outcome wr, or when the header write has
\* failed that many times: the device image it leaves and what it returns.
journal_write_raw_faulty(d, entries, good, wr, failed) ==
    LET r == initialize_indices(d, "ok")
        done == IF good < Len(entries) THEN good ELSE Len(entries)
        w == WriteBatch(d, SubSeq(entries, 1, done), r.start_index, r.end_index)
    IN  IF good < Len(entries)
        THEN [ok |-> FALSE,
              disk |-> journal_write_indexed(w.disk, entries[good + 1], PAYLOAD_SIZE,
                                             w.end_index, w.start_index, wr).disk,
              dropped |-> Len(entries)]
        ELSE [ok |-> TRUE,
              disk |-> persist_header_with_retry(w.disk, w.start_index, w.end_index,
                                                 HEADER_RETRIES, failed).disk,
              dropped |-> 0]

\* A batch that does not advance the header.
SeqBatchFault(entries, good, wr, failed) ==
    /\ faults < budget.faults
    /\ good < Len(entries) \/ failed >= HEADER_RETRIES
    /\ wr # "ok"
    /\ Len(written) + Len(entries) <= MaxWrites
    /\ BadCount(written \o entries) <= MaxBad
    /\ disk' = journal_write_raw_faulty(disk, entries, good, wr, failed).disk
    /\ dropped_txs' = dropped_txs
                        + journal_write_raw_faulty(disk, entries, good, wr, failed).dropped
    /\ replayed_once' = TRUE
    /\ faults' = faults + 1
    /\ UNCHANGED <<journal_tx_id, now, journal_device_ready, shutdown_in_progress,
                   queue_vars, sync_write_lock, sync_fd, caller, flusher,
                   shutdown_pc, history_vars, written>>

InitFault == InitWith([calls |-> 0, faults |-> MaxFaults, time |-> 0])

NextFault ==
    \/ NextWriter
    \/ \E t1 \in 1..MaxTime, k1 \in PayloadKinds,
          good \in 0..1, wr \in {"fail", "short"}, failed \in {0, HEADER_RETRIES} :
         SeqBatchFault(<<NewPayload(Len(written) + 1, t1, k1)>>, good, wr, failed)
    \/ \E t1 \in 1..MaxTime, k1 \in PayloadKinds,
          t2 \in 1..MaxTime, k2 \in PayloadKinds,
          good \in 0..2, wr \in {"fail", "short"}, failed \in {0, HEADER_RETRIES} :
         SeqBatchFault(<<NewPayload(Len(written) + 1, t1, k1),
                         NewPayload(Len(written) + 2, t2, k2)>>, good, wr, failed)

SpecFault == InitFault /\ [][NextFault]_vars

\* C11: a batch that does not advance the header, because a data write
\* failed part-way or because the header write failed, leaves the replay of
\* the device exactly as it was before the batch, for every batch size and
\* every prior start_index and end_index.
C11_FailedBatchKeepsReplay ==
    [][(faults' = faults + 1)
         => (journal_replay_from_file(disk', JOURNAL_NUM_ENTRIES) = Replayed)]_vars

\* C12: starting from a zeroed device, in every reachable state, every point
\* between an entry write and the following header write included, either
\* the on-disk header is invalid or every slot of its range holds an entry
\* with the journal magic, the journal version and a stored CRC equal to the
\* CRC of its payload region.
C12_PersistedRangeIsValid ==
    HeaderValid(disk.hdr) =>
        \A k \in 1..Len(Persisted) :
            /\ Persisted[k].magic = JOURNAL_MAGIC
            /\ Persisted[k].version = JOURNAL_VERSION
            /\ Persisted[k].crc32 = Crc32(PayloadWords(Persisted[k].payload))

(***************************************************************************)
(* The writer on a device that starts with an arbitrary header.            *)
(***************************************************************************)
\* The header persist_header_with_retry builds for the two indices.
MakeHeader(start_index, end_index) ==
    persist_header_with_retry(FreshDevice, start_index, end_index,
                              HEADER_RETRIES, 0).disk.hdr

\* Headers a device may start with: zeroed, valid with any indices, valid
\* CRC with an index out of bounds, in-bounds indices with a wrong CRC or a
\* wrong magic.
StartHeaders ==
    {ZeroHeader}
      \cup {MakeHeader(a, b) : a, b \in 0..(JOURNAL_NUM_ENTRIES - 1)}
      \cup {MakeHeader(JOURNAL_NUM_ENTRIES, 0), MakeHeader(1, JOURNAL_NUM_ENTRIES + 1)}
      \cup {[MakeHeader(1, 2) EXCEPT !.crc32 = 0],
            [MakeHeader(1, 2) EXCEPT !.magic = 0]}

InitHeader ==
    \E h \in StartHeaders :
        InitOn([calls |-> 0, faults |-> MaxFaults, time |-> 0, hdr0 |-> h],
               [FreshDevice EXCEPT !.hdr = h])

NextHeader ==
    \/ SeqBatch(<<NewPayload(Len(written) + 1, 1, "sane")>>)
    \/ SeqBatch(<<NewPayload(Len(written) + 1, 1, "sane"),
                  NewPayload(Len(written) + 2, 1, "sane")>>)
    \/ SeqSync(NewPayload(Len(written) + 1, 1, "sane"))
    \/ \E good \in 0..1, wr \in {"fail", "short"}, failed \in {0, HEADER_RETRIES} :
         SeqBatchFault(<<NewPayload(Len(written) + 1, 1, "sane")>>, good, wr, failed)

SpecHeader == InitHeader /\ [][NextHeader]_vars

\* C13: every header the writer persists, after any sequence of batch and
\* sync writes from any starting header (valid, invalid or out of bounds),
\* has start_index and end_index in 0..N-1 and a CRC field equal to the CRC
\* of the header with the CRC field zeroed.
C13_PersistedHeaderWellFormed ==
    [][(disk'.hdr # disk.hdr)
         => /\ disk'.hdr.start_index \in 0..(JOURNAL_NUM_ENTRIES - 1)
            /\ disk'.hdr.end_index \in 0..(JOURNAL_NUM_ENTRIES - 1)
            /\ disk'.hdr.crc32 = Crc32(<<disk'.hdr.magic, disk'.hdr.version,
                                         disk'.hdr.start_index,
                                         disk'.hdr.end_index, 0>>)]_vars

\* A header persisted after the ring has wrapped, on a device that started
\* with a header whose index was out of bounds.
C13_Witness ==
    /\ budget.hdr0.start_index >= JOURNAL_NUM_ENTRIES
    /\ Len(written) > JOURNAL_NUM_ENTRIES
    /\ disk.hdr # budget.hdr0
    /\ disk.hdr.end_index < disk.hdr.start_index

\* C14: journal_enqueue on a full queue returns failure, the event is
\* dropped and the dropped_events counter goes up by one, while head, tail,
\* count and every slot are left as they were.
C14_FullQueueCountsDrop ==
    [][\A t \in Callers :
         (/\ caller[t].pc = "dispatch"
          /\ ~TakesSyncPath(journal_device_ready, caller[t].durability)
          /\ QueueFull
          /\ caller'[t].pc = "idle")
            => /\ dropped_events' = dropped_events + 1
               /\ UNCHANGED queue_vars]_vars

\* C15: a journal_log_metadata call for a node whose inode is on the ignore
\* list returns at once and changes nothing: the tx_id counter, the queue
\* (head, tail, count, slots), the on-disk header and the on-disk entries
\* stay as they were, for either durability and any device_ready value.
C15_IgnoredInodeChangesNothing ==
    [][\A t \in Callers, d \in Durabilities :
         LogStart(t, 48803, d)
            => /\ UNCHANGED <<journal_tx_id, queue_vars, disk, assigned>>
               /\ caller'[t] = IdleCaller]_vars

\* An ignored call and a logged call have both been made: only the logged
\* one has left a trace.
C15_Witness ==
    /\ calls = 2
    /\ Len(assigned) = 1
    /\ journal_tx_id = 2
    /\ count = 1
    /\ journal_device_ready
    /\ \A t \in Callers : caller[t].pc = "idle"

\* A step of the batch path or of the sync path that issues a header read,
\* an entry write or a header write to the raw device.
DeviceIoStep ==
    \/ WriteRawBegin /\ sync_fd' >= 0
    \/ WriteRawEntry
    \/ WriteRawPersist
    \/ \E t \in Callers :
         \/ SyncBegin(t) /\ replayed_once /\ sync_fd' >= 0
         \/ SyncWriteEntry(t)
         \/ SyncPersist(t)

\* C16: in every interleaving of the monitor, the flusher and the callers,
\* no header read, entry write or header write is issued by the batch path
\* or the sync path in a state where device_ready is false.
C16_NoIoWhileNotReady ==
    [][DeviceIoStep => journal_device_ready]_vars

(***************************************************************************)
(* Asynchronous delivery: callers that only log ASYNC, a device that       *)
(* becomes ready and stays ready, no shutdown and no I/O error.            *)
(***************************************************************************)
NextDeliver ==
    \/ \E t \in Callers, ino \in NodeInos : LogStart(t, ino, "ASYNC")
    \/ \E t \in Callers : LogStamp(t)
    \/ \E t \in Callers : LogEnqueue(t)
    \/ FlusherWaitReady
    \/ FlusherWaitQueue
    \/ FlusherWake
    \/ WriteRawBegin
    \/ WriteRawEntry
    \/ WriteRawPersist
    \/ MonitorIter(TRUE, TRUE)

SpecDeliver ==
    /\ InitBurst
    /\ [][NextDeliver]_vars
    /\ WF_vars(FlusherNext)
    /\ WF_vars(MonitorIter(TRUE, TRUE))
    /\ \A t \in Callers : WF_vars(CallerNext(t))

\* The inodes of the payloads of a list, in order.
InosOf(list) == [k \in 1..Len(list) |-> list[k].ino]

\* The flusher persists the header of a batch that holds every payload
\* enqueued so far: they were all enqueued within its coalescing window.
WholeBurstPersisted ==
    /\ WriteRawPersist
    /\ Len(flusher.batch) = Len(enq_order)
    /\ Len(enq_order) >= 2

\* C17: on a fresh device that stays ready, with no shutdown and no I/O
\* error, the payloads enqueued within one coalescing window are written in
\* a single batch, after which end_index is their number and replay returns
\* all of them in enqueue order; and every successfully enqueued payload is
\* eventually handed to the writer and written.
C17_AsyncDelivery ==
    /\ [][WholeBurstPersisted
            => /\ disk'.hdr.start_index = 0
               /\ disk'.hdr.end_index = Len(enq_order)
               /\ journal_replay_from_file(disk', JOURNAL_NUM_ENTRIES).status = "ok"
               /\ \A l \in journal_replay_from_file(disk', JOURNAL_NUM_ENTRIES).lists :
                    InosOf(l) = enq_order]_vars
    /\ \A i \in 101..(100 + MaxBurst) :
         (\E k \in 1..Len(enq_order) : enq_order[k] = i) ~> (i \in ever_persisted)

\* C18: on a zeroed device the header is treated as invalid and the indices
\* read are (0, 0); the first successful write of one payload places the
\* entry in slot 0 and persists the header {magic, version 1, start_index 0,
\* end_index 1, valid crc}.
C18_FirstWriteOnZeroedDevice ==
    [][(budget.hdr0 = ZeroHeader /\ written = <<>> /\ Len(written') = 1)
         => /\ ~HeaderValid(disk.hdr)
            /\ initialize_indices(disk, "ok").start_index = 0
            /\ initialize_indices(disk, "ok").end_index = 0
            /\ disk'.slots[0].magic = JOURNAL_MAGIC
            /\ disk'.slots[0].version = JOURNAL_VERSION
            /\ disk'.slots[0].payload = written'[1]
            /\ disk'.slots[0].crc32 = Crc32(PayloadWords(written'[1]))
            /\ disk'.hdr = [magic |-> JOURNAL_MAGIC, version |-> 1,
                            start_index |-> 0, end_index |-> 1,
                            crc32 |-> Crc32(<<JOURNAL_MAGIC, 1, 0, 1, 0>>)]]_vars

\* The first successful write on a zeroed device has been made, after a
\* batch that failed.
C18_Witness ==
    /\ budget.hdr0 = ZeroHeader
    /\ faults = 1
    /\ Len(written) = 1
    /\ disk.slots[0].payload = written[1]
    /\ disk.hdr.start_index = 0
    /\ disk.hdr.end_index = 1

(***************************************************************************)
(* The replayer on logs the writer produced: sane payloads whose           *)
(* timestamps may lie more than the skew tolerance apart, one byte of one  *)
(* persisted entry flipped behind the writer's back, and runs of           *)
(* journal_replay_from_file.                                               *)
(***************************************************************************)
ReplayTimes == {1, 2, SKEW_TOLERANCE_MS + 2}

EntryFields == {"magic", "version", "payload", "padding", "crc32"}

\* The entries one flipped byte in the named field of e can leave.
FlipByte(e, field) ==
    CASE field = "magic" -> {[e EXCEPT !.magic = @ + 1]}
      [] field = "version" -> {[e EXCEPT !.version = @ - 1], [e EXCEPT !.version = @ + 2]}
      [] field = "payload" ->
           {[e EXCEPT !.payload.tx_id = @ + 1],
            [e EXCEPT !.payload.timestamp_ms = @ + 1],
            [e EXCEPT !.payload.ino = @ + 1],
            [e EXCEPT !.payload.action = ""]}
      [] field = "padding" -> {[e EXCEPT !.padding = @ + 1]}
      [] field = "crc32" -> {[e EXCEPT !.crc32 = @ + 1]}

replay_unchanged ==
    UNCHANGED <<journal_tx_id, now, journal_device_ready, shutdown_in_progress,
                queue_vars, sync_write_lock, replayed_once, dropped_txs, sync_fd,
                caller, flusher, shutdown_pc, calls, assigned, enq_order,
                enq_before_shutdown, ever_persisted, faults, budget,
                dropped_events, monitor, written>>

\* One byte of the k-th entry of the persisted range is flipped on the
\* device; the header is left as it is.
Corrupt(k, field) ==
    /\ flipped = NoFlip
    /\ k \in 1..Len(Persisted)
    /\ \E c \in FlipByte(Persisted[k], field) :
         disk' = [disk EXCEPT
                    !.slots[index_to_offset(disk.hdr.start_index + k - 1)] = c]
    /\ flipped' = [pos |-> k, field |-> field]
    /\ UNCHANGED replayed
    /\ replay_unchanged

\* ReplayRun with a replay that clears the header of a device it rejects.
ReplayRunClearsHeader ==
    /\ replayed' = ReplayReport(disk)
    /\ disk' = IF ReplayReport(disk).status = "failed"
               THEN [disk EXCEPT !.hdr = ZeroHeader] ELSE disk
    /\ UNCHANGED flipped
    /\ replay_unchanged

\* journal_replay_from_file runs on the device: it opens it read-only and
\* only reports.
ReplayRun ==
    /\ replayed' = ReplayReport(disk)
    /\ UNCHANGED <<disk, flipped>>
    /\ replay_unchanged

InitReplay == InitWith([calls |-> 0, faults |-> 0, time |-> 0])

NextReplay ==
    \/ /\ flipped = NoFlip
       /\ Len(written) < JOURNAL_NUM_ENTRIES
       /\ \E t1 \in ReplayTimes : SeqBatch(<<NewPayload(Len(written) + 1, t1, "sane")>>)
    \/ /\ flipped = NoFlip
       /\ Len(written) + 1 < JOURNAL_NUM_ENTRIES
       /\ \E t1 \in ReplayTimes, t2 \in ReplayTimes :
            SeqBatch(<<NewPayload(Len(written) + 1, t1, "sane"),
                       NewPayload(Len(written) + 2, t2, "sane")>>)
    \/ \E k \in 1..(JOURNAL_NUM_ENTRIES - 1), field \in EntryFields : Corrupt(k, field)
    \/ ReplayRun

SpecReplay == InitReplay /\ [][NextReplay]_vars

\* C19 as stated: once one byte of an entry of the persisted range has been
\* flipped, in whichever field, a replay reports a failure, stops at that
\* entry and leaves the header as it was.
C19_AnyFlipIsDetected ==
    [][(ReplayRun /\ flipped # NoFlip)
         => /\ replayed'.status = "failed"
            /\ replayed'.stopped_at = flipped.pos
            /\ disk'.hdr = disk.hdr]_vars

\* C19: once one byte of the magic, version, payload or CRC field of an
\* entry of the persisted range has been flipped, a replay reports a failure
\* and stops at that entry, with a CRC mismatch when the magic and the
\* version are intact; a byte flipped in the padding, which the CRC does not
\* cover, leaves the replay successful; the header is not changed either way.
C19_FlipOutsidePaddingIsDetected ==
    [][(ReplayRun /\ flipped # NoFlip)
         => /\ disk'.hdr = disk.hdr
            /\ flipped.field # "padding"
                 => /\ replayed'.status = "failed"
                    /\ replayed'.stopped_at = flipped.pos
                    /\ replayed'.reason =
                         (CASE flipped.field = "magic" -> "bad_magic"
                            [] flipped.field = "version" -> "bad_version"
                            [] OTHER -> "crc_mismatch")
            /\ flipped.field = "padding"
                 => /\ replayed'.status = "ok"
                    /\ replayed'.stopped_at = 0]_vars

\* A byte of the payload of the third entry of a full range was flipped and
\* the replay stopped there on a CRC mismatch.
C19_Witness ==
    /\ flipped = [pos |-> 3, field |-> "payload"]
    /\ Len(Persisted) = JOURNAL_NUM_ENTRIES - 1
    /\ replayed.status = "failed"
    /\ replayed.stopped_at = 3
    /\ replayed.reason = "crc_mismatch"

\* C20: when the walked range holds two consecutive entries whose
\* timestamp_ms decreases by more than the skew tolerance, a run of
\* journal_replay_from_file is marked as failed and stops at the later one.
C20_ReplayEnforcesOrdering ==
    [][(ReplayRun /\ flipped = NoFlip)
         => \A k \in 1..(Len(Persisted) - 1) :
              (/\ \A j \in 1..(k - 1) :
                    Persisted[j].payload.timestamp_ms
                      <= Persisted[j + 1].payload.timestamp_ms + SKEW_TOLERANCE_MS
               /\ Persisted[k].payload.timestamp_ms
                    > Persisted[k + 1].payload.timestamp_ms + SKEW_TOLERANCE_MS)
                => /\ replayed'.status = "failed"
                   /\ replayed'.stopped_at = k + 1]_vars

(***************************************************************************)
(* journal_flush_now (journal_queue.c 102-108) against the coalescing loop *)
(* of the flusher (lines 141-150), the loop taken one iteration at a time. *)
(***************************************************************************)
flusher_unchanged ==
    UNCHANGED <<journal_tx_id, now, journal_device_ready, shutdown_in_progress,
                queue_vars, writer_vars, caller, shutdown_pc, history_vars,
                faults, written>>

\* Lines 141-149: the loop test passes and the deadline is still ahead, so
\* the flusher blocks in pthread_cond_timedwait, the queue lock released.
FlusherTimedWait ==
    /\ flusher.pc \in {"coalesce", "flush_woken"}
    /\ count < JOURNAL_QUEUE_MAX /\ ~shutdown_in_progress
    /\ flusher' = [flusher EXCEPT !.pc = "timedwait"]
    /\ flusher_unchanged

\* Line 149 returns on its timeout or on the signal of an enqueue or of
\* journal_queue_shutdown; the flusher is back at the loop test.
FlusherTimedOut ==
    /\ flusher.pc = "timedwait"
    /\ flusher' = [flusher EXCEPT !.pc = "coalesce"]
    /\ flusher_unchanged

\* journal_flush_now: lock, pthread_cond_signal, unlock.  A flusher blocked
\* in the timed wait returns from it to the loop test; the signal is lost
\* on a flusher that is anywhere else.
FlushNow ==
    /\ flusher' = IF flusher.pc = "timedwait"
                  THEN [flusher EXCEPT !.pc = "flush_woken"]
                  ELSE flusher
    /\ flusher_unchanged

NextFlush ==
    \/ \E t \in Callers, ino \in NodeInos : LogStart(t, ino, "ASYNC")
    \/ \E t \in Callers : LogStamp(t)
    \/ \E t \in Callers : LogEnqueue(t)
    \/ FlusherWaitReady
    \/ FlusherWaitQueue
    \/ FlusherWake
    \/ FlusherTimedWait
    \/ FlusherTimedOut
    \/ FlusherLeaveWait("flush_woken")
    \/ FlushNow
    \/ WriteRawBegin
    \/ WriteRawEntry
    \/ WriteRawPersist
    \/ MonitorIter(TRUE, TRUE)

SpecFlush == InitBurst /\ [][NextFlush]_vars

\* C21: journal_flush_now changes neither head, tail, count nor any slot,
\* and a flusher it wakes from the coalescing wait while the queue is not
\* empty and the device is ready goes on to drain the queue instead of
\* waiting again.
C21_FlushNowEndsCoalescing ==
    [][/\ FlushNow => UNCHANGED queue_vars
       /\ (/\ flusher.pc = "flush_woken"
           /\ count > 0
           /\ journal_device_ready
           /\ flusher'.pc # flusher.pc)
            => /\ flusher'.pc = "w_lock"
               /\ count' = 0]_vars

\* The inodes of the payloads journal_enqueue accepted so far.
EnqueuedInos == {enq_order[k] : k \in 1..Len(enq_order)}

\* C22: at the dispatch of a non-ignored node the payload goes to the
\* synchronous writer exactly when the device is ready and the durability is
\* SYNC, and is handed to journal_enqueue otherwise; no step of the
\* synchronous path, failed or not, changes the queue or enqueues the
\* payload.
C22_DispatchAndNoFallback ==
    [][\A t \in Callers :
        /\ (caller[t].pc = "dispatch" /\ caller'[t] # caller[t])
             => IF journal_device_ready /\ caller[t].durability = "SYNC"
                THEN /\ caller'[t].pc = "s_lock"
                     /\ UNCHANGED <<queue_vars, enq_order>>
                ELSE /\ caller'[t] = IdleCaller
                     /\ IF count >= JOURNAL_QUEUE_MAX
                        THEN UNCHANGED <<queue_vars, enq_order>>
                        ELSE /\ count' = count + 1
                             /\ journal_queue'[tail].data = caller[t].entry
                             /\ enq_order' = Append(enq_order, caller[t].entry.ino)
        /\ (caller[t].pc \in {"s_lock", "s_entry", "s_header", "s_ret"}
              /\ caller'[t] # caller[t])
             => /\ UNCHANGED <<queue_vars, enq_order>>
                /\ caller[t].entry.ino \notin EnqueuedInos
                /\ caller[t].durability = "SYNC"]_vars

\* The first call was enqueued; the second, a SYNC call dispatched while
\* the device was ready, took the synchronous path and failed, and the queue
\* holds the first payload only.
C22_Witness ==
    /\ \E t \in Callers :
         /\ caller[t].pc = "s_ret"
         /\ ~caller[t].ret
         /\ caller[t].entry.ino = 102
    /\ enq_order = <<101>>
    /\ count = 1
    /\ ~journal_device_ready

\* C23: a flusher that finds the device not ready after its coalescing wait
\* goes back to the readiness wait without a batch: head, tail, count, the
\* slots, the device and the drop counter are unchanged; and the queue is
\* only ever drained by a step that found the device ready.
C23_NotReadySkipsDrain ==
    [][/\ (flusher.pc = "coalesce" /\ ~journal_device_ready /\ flusher' # flusher)
            => /\ flusher'.pc = "wait_ready"
               /\ flusher'.batch = <<>>
               /\ UNCHANGED <<queue_vars, disk, dropped_txs, sync_write_lock>>
       /\ (count' < count \/ head' # head) => journal_device_ready]_vars

\* The flusher is at the device test with a full queue, and the device it
\* found ready before the queue wait has gone away.
C23_Witness ==
    /\ flusher.pc = "coalesce"
    /\ ~journal_device_ready
    /\ ~shutdown_in_progress
    /\ count = JOURNAL_QUEUE_MAX

\* C24: when the write of entry i (from 0) of a batch of n fails, the batch
\* ends there with the header as it was and the drop counter is raised by
\* the unwritten remainder n - i.
C24_FailedEntryDropsRemainder ==
    [][(/\ flusher.pc = "w_entry"
        /\ flusher.i <= Len(flusher.batch)
        /\ flusher'.pc = "wait_ready")
         => /\ disk'.hdr = disk.hdr
            /\ sync_write_lock' = NoThread
            /\ dropped_txs' = dropped_txs + Len(flusher.batch) - (flusher.i - 1)]_vars

\* The payloads of the persisted range, in order.
PersistedPayloads(d) ==
    [k \in 1..Len(PersistedEntries(d)) |-> PersistedEntries(d)[k].payload]

\* The payloads of the batch the flusher is writing, read through its slot
\* pointers, and whether no enqueue has reused one of those slots.
BatchPayloads ==
    [k \in 1..Len(flusher.batch) |-> journal_queue[flusher.batch[k].data].data]

BatchIntact == \A k \in 1..Len(flusher.batch) : ~journal_queue[flusher.batch[k].data].used

\* A synchronous write of caller t returns success within capacity and the
\* range is the one it found with its entry appended.
SyncAppends(t) ==
    (/\ caller[t].pc = "s_header"
     /\ caller'[t].pc = "s_ret"
     /\ caller'[t].ret
     /\ Len(PersistedPayloads(disk)) + 1 < JOURNAL_NUM_ENTRIES)
      => PersistedPayloads(disk') = Append(PersistedPayloads(disk), caller[t].entry)

\* A batch write persists its header within capacity and the range is the
\* one it found with the batch appended.
BatchAppends ==
    (/\ flusher.pc = "w_entry"
     /\ flusher.i > Len(flusher.batch)
     /\ flusher'.pc = "wait_ready"
     /\ HeaderValid(disk'.hdr)
     /\ disk'.hdr.end_index = flusher.end_index
     /\ BatchIntact
     /\ Len(PersistedPayloads(disk)) + Len(flusher.batch) < JOURNAL_NUM_ENTRIES)
      => PersistedPayloads(disk') = PersistedPayloads(disk) \o BatchPayloads

C26_ValidationRunsOnce ==
    [][/\ replayed_once => replayed_once'
       /\ replayed_once' # replayed_once
            => /\ flusher.pc = "w_lock"
               /\ flusher'.pc = "w_entry"
               /\ flusher'.i = 1
               /\ sync_write_lock' = Flusher
               /\ disk' = disk
       /\ (flusher.pc = "w_lock" /\ flusher'.pc = "w_entry") => replayed_once'
       /\ (flusher.pc = "w_lock" /\ flusher'.pc = "wait_ready")
            => /\ replayed_once' = replayed_once
               /\ dropped_txs' = dropped_txs + Len(flusher.batch)]_vars

\* A batch write has just run the validation, after an earlier batch was
\* dropped on a device failure, and has written no entry yet.
C26_Witness ==
    /\ flusher.pc = "w_entry"
    /\ flusher.i = 1
    /\ replayed_once
    /\ dropped_txs = 1
    /\ faults = 1
    /\ disk = FreshDevice

(***************************************************************************)
(* persist_header_with_retry (journal_writer.c 249-278), its loop taken    *)
(* one pwrite at a time.                                                   *)
(***************************************************************************)
\* What each pwrite of a call may do: TRUE for a full write of the header.
AttemptOutcomes == [1..(HEADER_RETRIES + 1) -> BOOLEAN]

\* The loop with one attempt more than it was asked for.
RECURSIVE persist_header_loop_extra(_, _, _, _, _)
persist_header_loop_extra(d, hdr, retries, outcomes, attempts) ==
    IF retries >= 0
    THEN IF outcomes[attempts + 1]
         THEN [ok |-> TRUE, disk |-> [d EXCEPT !.hdr = hdr], attempts |-> attempts + 1]
         ELSE persist_header_loop_extra(d, hdr, retries - 1, outcomes, attempts + 1)
    ELSE [ok |-> FALSE, disk |-> d, attempts |-> attempts]

\* Lines 263-277: 'while (retries-- > 0)' around the pwrite; attempts counts
\* the pwrite calls made so far.
RECURSIVE persist_header_loop(_, _, _, _, _)
persist_header_loop(d, hdr, retries, outcomes, attempts) ==
    IF retries > 0
    THEN IF outcomes[attempts + 1]
         THEN [ok |-> TRUE, disk |-> [d EXCEPT !.hdr = hdr], attempts |-> attempts + 1]
         ELSE persist_header_loop(d, hdr, retries - 1, outcomes, attempts + 1)
    ELSE [ok |-> FALSE, disk |-> d, attempts |-> attempts]

\* The number of attempts that fail before the first that succeeds.
RECURSIVE LeadingFailures(_, _)
LeadingFailures(outcomes, k) ==
    IF k > HEADER_RETRIES + 1 THEN 0
    ELSE IF outcomes[k] THEN 0
    ELSE 1 + LeadingFailures(outcomes, k + 1)

IndicesAsStated(h, rd, healed) ==
    IF rd = "eio" /\ ~healed THEN [ok |-> FALSE, start_index |-> 0, end_index |-> 0]
    ELSE IF rd = "ok" /\ HeaderValid(h)
         THEN [ok |-> TRUE, start_index |-> h.start_index, end_index |-> h.end_index]
    ELSE [ok |-> TRUE, start_index |-> 0, end_index |-> 0]

\* A write that holds the descriptor reads the indices: it goes on with the
\* stored indices when the read succeeded on a valid header and with (0, 0)
\* otherwise, or, when aborts is allowed, gives up on a failed read.
ProceedsFromIndices(aborts) ==
    /\ (flusher.pc = "w_lock" /\ flusher' # flusher /\ sync_fd' >= 0)
         => \/ /\ flusher'.pc = "w_entry"
               /\ flusher'.start_index =
                    IndicesAsStated(disk.hdr, IF faults' = faults THEN "ok" ELSE "short",
                                    TRUE).start_index
               /\ flusher'.end_index =
                    IndicesAsStated(disk.hdr, IF faults' = faults THEN "ok" ELSE "short",
                                    TRUE).end_index
            \/ /\ aborts
               /\ faults' = faults + 1
               /\ flusher'.pc = "wait_ready"
               /\ dropped_txs' = dropped_txs + Len(flusher.batch)
               /\ disk' = disk
    /\ \A t \in Callers :
         (caller[t].pc = "s_lock" /\ caller'[t] # caller[t] /\ replayed_once
            /\ sync_fd' >= 0)
          => \/ /\ caller'[t].pc = "s_entry"
                /\ caller'[t].start_index =
                     IndicesAsStated(disk.hdr, IF faults' = faults THEN "ok" ELSE "short",
                                     TRUE).start_index
                /\ caller'[t].end_index =
                     IndicesAsStated(disk.hdr, IF faults' = faults THEN "ok" ELSE "short",
                                     TRUE).end_index
             \/ /\ aborts
                /\ faults' = faults + 1
                /\ caller'[t].pc = "s_ret"
                /\ ~caller'[t].ret
                /\ disk' = disk

\* C28 as stated: a write that holds the descriptor always goes on after
\* reading the indices, from (0, 0) when the read came back short or with EIO
\* or the header is invalid, from the stored indices otherwise.
C28_EveryReadFailureHeals == [][ProceedsFromIndices(FALSE)]_vars

\* C28: on a short read and on every invalid header (magic, version, CRC,
\* index out of bounds) initialize_indices returns (0, 0) and the write that
\* called it goes on from slot 0; on EIO it returns failure and the write is
\* given up, leaving the device as it was; it returns the stored indices
\* only for a read that succeeded on a valid header.
C28_ReadHealsExceptEio ==
    /\ \A h \in StartHeaders, rd \in {"ok", "short", "eio"} :
         initialize_indices([FreshDevice EXCEPT !.hdr = h], rd)
            = IndicesAsStated(h, rd, FALSE)
    /\ [](\A rd \in {"ok", "short", "eio"} :
            initialize_indices(disk, rd) = IndicesAsStated(disk.hdr, rd, FALSE))
    /\ [][ProceedsFromIndices(TRUE)]_vars

\* A batch write whose header read came back short goes on from (0, 0)
\* although the device holds a valid header with one entry.
C28_Witness ==
    /\ flusher.pc = "w_entry"
    /\ flusher.i = 1
    /\ faults = 1
    /\ HeaderValid(disk.hdr)
    /\ disk.hdr.end_index = 1
    /\ flusher.end_index = 0

(***************************************************************************)
(* The replayer on any log the writer can leave: payloads that fail the    *)
(* sanity checks among the sane ones, and one flipped byte.                *)
(***************************************************************************)
\* The device starts zeroed, or with a valid header over slots that were
\* never written: empty, a range of two, a range that wraps.
ReplayStartHeaders == {ZeroHeader, MakeHeader(0, 0), MakeHeader(1, 3), MakeHeader(3, 1)}

InitReplayAny ==
    \E h \in ReplayStartHeaders :
        InitOn([calls |-> 0, faults |-> 0, time |-> 0, hdr0 |-> h],
               [FreshDevice EXCEPT !.hdr = h])

NextReplayAny ==
    \/ /\ flipped = NoFlip
       /\ Len(written) < JOURNAL_NUM_ENTRIES
       /\ \E k1 \in PayloadKinds : SeqBatch(<<NewPayload(Len(written) + 1, 1, k1)>>)
    \/ /\ flipped = NoFlip
       /\ Len(written) < JOURNAL_NUM_ENTRIES
       /\ replayed_once
       /\ \E k1 \in PayloadKinds : SeqSync(NewPayload(Len(written) + 1, 1, k1))
    \/ \E k \in 1..(JOURNAL_NUM_ENTRIES - 1), field \in EntryFields : Corrupt(k, field)
    \/ ReplayRun

SpecReplayAny == InitReplayAny /\ [][NextReplayAny]_vars

\* The violations that end a replay.
FatalViolation(e) ==
    \/ e.magic # JOURNAL_MAGIC
    \/ e.version # JOURNAL_VERSION
    \/ e.crc32 # Crc32(PayloadWords(e.payload))
    \/ e.payload.action = ""
    \/ e.payload.ino = 0

\* The positions in the persisted range of the entries with a violation.
BadPositions == {k \in 1..Len(Persisted) : FatalViolation(Persisted[k])}

\* C29: a replay of a device with a valid header takes the entries of the
\* range in logical order; with no bad entry it succeeds and reports lists
\* made of all the payloads; otherwise it is marked failed, it stopped at
\* the first bad entry, it collected exactly the payloads before that entry
\* and it reports no list.
C29_ReplayStopsAtFirstBadEntry ==
    [][(ReplayRun /\ HeaderValid(disk.hdr))
         => LET w == ReplayWalk(disk, disk.hdr.start_index, disk.hdr.end_index,
                                JOURNAL_NUM_ENTRIES, <<>>)
            IN  IF BadPositions = {}
                THEN /\ replayed'.status = "ok"
                     /\ replayed'.lists # {}
                     /\ \A l \in replayed'.lists :
                          /\ Len(l) = Len(Persisted)
                          /\ \A k \in 1..Len(Persisted) :
                               \E m \in 1..Len(l) : l[m] = Persisted[k].payload
                     /\ w.list = PersistedPayloads(disk)
                ELSE LET first == CHOOSE k \in BadPositions :
                                      \A m \in BadPositions : k <= m
                     IN  /\ replayed'.status = "failed"
                         /\ replayed'.stopped_at = first
                         /\ replayed'.lists = {}
                         /\ ~w.all_good
                         /\ w.list = SubSeq(PersistedPayloads(disk), 1, first - 1)]_vars

\* A replay stopped at the second of three entries, whose ino is 0, with a
\* sane entry on either side of it.
C29_Witness ==
    /\ flipped = NoFlip
    /\ Len(Persisted) = 3
    /\ replayed.status = "failed"
    /\ replayed.stopped_at = 2
    /\ replayed.reason = "bad_ino"
    /\ replayed = ReplayReport(disk)

(***************************************************************************)
(* journal_replay_and_validate (journal_writer.c 99-247), the validation   *)
(* journal_write_raw runs once: it opens the device read-only, logs its    *)
(* verdict and returns nothing.                                            *)
(***************************************************************************)
\* Lines 145-231: the walk, every pread succeeding; whether all_good stays
\* true.
RECURSIVE ValidateWalk(_, _, _, _, _)
ValidateWalk(d, index, end_index, last_tx_id, last_timestamp) ==
    IF index = end_index THEN TRUE
    ELSE LET e == d.slots[index_to_offset(index)]
             p == e.payload
             skew == IF p.timestamp_ms >= last_timestamp
                     THEN p.timestamp_ms - last_timestamp
                     ELSE last_timestamp - p.timestamp_ms
         IN  IF e.magic # JOURNAL_MAGIC THEN FALSE
             ELSE IF e.version # JOURNAL_VERSION THEN FALSE
             ELSE IF Crc32(PayloadWords(p)) # e.crc32 THEN FALSE
             ELSE IF p.timestamp_ms < last_timestamp THEN FALSE
             ELSE IF /\ \/ p.timestamp_ms > last_timestamp /\ p.tx_id <= last_tx_id
                        \/ p.timestamp_ms < last_timestamp /\ p.tx_id >= last_tx_id
                     /\ skew > SKEW_TOLERANCE_MS
                  THEN FALSE
             ELSE ValidateWalk(d, (index + 1) % JOURNAL_NUM_ENTRIES, end_index,
                               p.tx_id, p.timestamp_ms)

journal_replay_and_validate(d) ==
    IF ~(/\ Crc32(HeaderWords(d.hdr)) = d.hdr.crc32
         /\ d.hdr.magic = JOURNAL_MAGIC
         /\ d.hdr.version = JOURNAL_VERSION)
    THEN "header_invalid"
    ELSE IF \/ d.hdr.start_index >= JOURNAL_NUM_ENTRIES
            \/ d.hdr.end_index >= JOURNAL_NUM_ENTRIES
    THEN "out_of_bounds"
    ELSE IF ValidateWalk(d, d.hdr.start_index, d.hdr.end_index, 0, 0)
    THEN "ok"
    ELSE "failed"

\* C30: a run of the replay, failed or not, leaves the header and every
\* slot of the device as they were; and a write of one payload to a device
\* with a valid header, whatever the validation and the last replay made of
\* that device, puts the entry in the slot at the header's end_index, leaves
\* the other slots alone, moves end_index on by one and start_index only
\* when the ring wraps.
C30_ReplayLeavesDeviceAlone ==
    [][/\ ReplayRun => disk' = disk
       /\ (Len(written') = Len(written) + 1 /\ HeaderValid(disk.hdr))
            => LET start_index == disk.hdr.start_index
                   end_index == disk.hdr.end_index
                   next_index == (end_index + 1) % JOURNAL_NUM_ENTRIES
               IN  /\ journal_replay_and_validate(disk) \in {"ok", "failed"}
                   /\ disk'.slots[end_index].payload = written'[Len(written')]
                   /\ \A i \in 0..(JOURNAL_NUM_ENTRIES - 1) :
                        i # end_index => disk'.slots[i] = disk.slots[i]
                   /\ disk'.hdr.end_index = next_index
                   /\ disk'.hdr.start_index =
                        (IF next_index = start_index
                         THEN (start_index + 1) % JOURNAL_NUM_ENTRIES
                         ELSE start_index)
                   /\ HeaderValid(disk'.hdr)]_vars

\* The device started with header (1, 3) over slots never written, which
\* the validation and a replay reject at the first entry; the first batch
\* then put its entry in slot 3 and moved the header to (1, 0).
C30_Witness ==
    /\ budget.hdr0 = MakeHeader(1, 3)
    /\ replayed.status = "failed"
    /\ replayed.stopped_at = 1
    /\ Len(written) = 1
    /\ disk.slots[3].payload = written[1]
    /\ disk.hdr.start_index = 1
    /\ disk.hdr.end_index = 0

(***************************************************************************)
(* The device monitor among the other threads, on a device that may be     *)
(* absent or unreadable a bounded number of times.                         *)
(***************************************************************************)
\* What an iteration met and did (journal.c 64-96): the one-byte read is
\* made only after a successful open while the flag is down, and the signal
\* is sent, the queue lock held, only after that read returned one byte.
MonitorRecord(ready, open_ok, pread_ok) ==
    [open_ok |-> open_ok,
     pread_ok |-> open_ok /\ ~ready /\ pread_ok,
     signalled |-> open_ok /\ ~ready /\ pread_ok]

\* One iteration on a device whose failures to open or to be read are
\* budgeted.
MonitorProbe(open_ok, pread_ok) ==
    /\ (open_ok /\ pread_ok) \/ faults < budget.faults
    /\ MonitorStep(open_ok, pread_ok)
    /\ monitor' = MonitorRecord(journal_device_ready, open_ok, pread_ok)
    /\ faults' = IF open_ok /\ pread_ok THEN faults ELSE faults + 1

MonitorLoop == \E open_ok \in BOOLEAN, pread_ok \in BOOLEAN : MonitorProbe(open_ok, pread_ok)

\* Every caller thread makes one call while the monitor runs.
InitMonitor ==
    InitWith([calls |-> Cardinality(Callers), faults |-> MaxFaults, time |-> 0])

NextMonitor ==
    \/ \E t \in Callers, ino \in NodeInos, d \in Durabilities : LogStart(t, ino, d)
    \/ \E t \in Callers : LogStamp(t)
    \/ \E t \in Callers : LogEnqueue(t)
    \/ \E t \in Callers : LogSyncCall(t)
    \/ \E t \in Callers : LogReturn(t)
    \/ \E t \in Callers : SyncBegin(t)
    \/ \E t \in Callers : SyncWriteEntry(t)
    \/ \E t \in Callers : SyncPersist(t)
    \/ FlusherWaitReady
    \/ FlusherWaitQueue
    \/ FlusherWake
    \/ WriteRawBegin
    \/ WriteRawEntry
    \/ WriteRawPersist
    \/ MonitorLoop
    \/ ShutdownCall
    \/ ShutdownJoin

\* The monitor thread loops for ever (while (1) with a bounded usleep), so
\* it is scheduled again and again.
SpecMonitor == InitMonitor /\ [][NextMonitor]_vars /\ WF_vars(MonitorLoop)

\* C31: device_ready goes from false to true only in a monitor iteration
\* whose open and whose one-byte read succeeded, and that iteration signals
\* the queue condition; it goes from true to false only in a monitor
\* iteration whose open failed; no other thread writes it; and once the
\* device is openable and readable for good, device_ready becomes true.
C31_MonitorTransitions ==
    /\ [][(~journal_device_ready /\ journal_device_ready')
             => (MonitorProbe(TRUE, TRUE) /\ monitor'.signalled)]_vars
    /\ [][(journal_device_ready /\ ~journal_device_ready')
             => (\E pread_ok \in BOOLEAN : MonitorProbe(FALSE, pread_ok))]_vars
    /\ [][(monitor'.signalled /\ monitor' # monitor)
             => (~journal_device_ready /\ journal_device_ready')]_vars
    /\ (faults = budget.faults) ~> journal_device_ready

\* The device was absent or unreadable, came back for good, and the monitor
\* raised the flag and signalled.
C31_Witness ==
    /\ faults = budget.faults
    /\ journal_device_ready
    /\ monitor = [open_ok |-> TRUE, pread_ok |-> TRUE, signalled |-> TRUE]
    /\ flusher.pc # "wait_ready"
    /\ disk = FreshDevice
    /\ \A t \in Callers : caller[t].pc = "idle"

(***************************************************************************)
(* The ring step of a single-entry write.                                  *)
(***************************************************************************)
\* The indices a write starts from: what initialize_indices makes of the
\* header on the device.
IndicesOf(d) == initialize_indices(d, "ok")

\* The step as stated: the entry goes to slot end_index, end_index moves on
\* by one modulo N, and start_index moves on by one modulo N exactly when
\* the new end_index has run onto it.
RingStepAsStated(d0, d1, payload) ==
    LET start_index == IndicesOf(d0).start_index
        end_index == IndicesOf(d0).end_index
        next == (end_index + 1) % JOURNAL_NUM_ENTRIES
    IN  /\ d1.slots[index_to_offset(end_index)] = MakeEntry(payload)
        /\ \A k \in DOMAIN d0.slots :
              k # index_to_offset(end_index) => d1.slots[k] = d0.slots[k]
        /\ d1.hdr.end_index = next
        /\ d1.hdr.start_index = IF next = start_index
                                THEN (start_index + 1) % JOURNAL_NUM_ENTRIES
                                ELSE start_index

\* C32: a successful single-entry write with indices (start, end) writes
\* the entry at slot end, sets end' = (end + 1) mod N and sets
\* start' = (start + 1) mod N exactly when end' = start; so after it
\* start' # end' and the range [start', end') holds at most N - 1 entries.
\* This holds of journal_write_indexed for every pair of indices, and of
\* every batch write of one entry and every sync write from any header.
C32_RingIndexStep ==
    /\ [](\A s, e \in 0..(JOURNAL_NUM_ENTRIES - 1) :
            LET p == NewPayload(1, 1, "sane")
                r == journal_write_indexed(disk, p, PAYLOAD_SIZE, e, s, "ok")
                next == (e + 1) % JOURNAL_NUM_ENTRIES
            IN  /\ r.ok
                /\ r.disk.slots[index_to_offset(e)] = MakeEntry(p)
                /\ r.end_index = next
                /\ r.start_index = IF next = s
                                   THEN (s + 1) % JOURNAL_NUM_ENTRIES ELSE s
                /\ r.start_index # r.end_index
                /\ Len(RangeIndices(r.start_index, r.end_index))
                      <= JOURNAL_NUM_ENTRIES - 1)
    /\ [][(Len(written') = Len(written) + 1)
            => /\ RingStepAsStated(disk, disk', written'[Len(written')])
               /\ disk'.hdr.start_index # disk'.hdr.end_index
               /\ Len(Persisted') \in 1..(JOURNAL_NUM_ENTRIES - 1)]_vars

\* A write onto a full ring: the device started with the range [2, 1), the
\* entry went to slot 1 and the oldest entry, in slot 2, was evicted.
C32_Witness ==
    /\ budget.hdr0 = MakeHeader(2, 1)
    /\ Len(written) = 1
    /\ disk.hdr = MakeHeader(3, 2)
    /\ disk.slots[index_to_offset(1)] = MakeEntry(written[1])

(***************************************************************************)
(* The batch in flight and the enqueuers.                                  *)
(***************************************************************************)
\* The entries of the flusher's batch that journal_write_raw has not yet
\* read through their slot pointers.
UnwrittenBatchEntries ==
    IF flusher.pc \in {"w_lock", "w_entry"}
    THEN {k \in 1..Len(flusher.batch) : k >= flusher.i}
    ELSE {}

\* C33: no queue slot referenced by a batch handed to the writer is
\* overwritten by a concurrent journal_enqueue before the writer has written
\* that batch entry, so the bytes written for each batch entry are the bytes
\* enqueued for it.
C33_BatchSlotsNotOverwritten ==
    [][\A k \in UnwrittenBatchEntries :
          journal_queue'[flusher.batch[k].data].data
            = journal_queue[flusher.batch[k].data].data]_vars

(***************************************************************************)
(* The queue's cursors.                                                    *)
(***************************************************************************)
\* A step is a successful journal_enqueue; a step is the flusher's drain.
EnqueueSucceeds == \E t \in Callers : LogEnqueue(t) /\ ~QueueFull

FlusherDrains == flusher.pc = "coalesce" /\ flusher'.pc = "w_lock"

\* C34: whenever the queue lock is free, 0 <= count <= Q, 0 <= head < Q,
\* 0 <= tail < Q and tail = (head + count) mod Q; a successful enqueue
\* raises count by exactly one, and a drain sets count to 0 and head to the
\* former tail.
C34_QueueCursors ==
    /\ [](/\ count \in 0..JOURNAL_QUEUE_MAX
           /\ head \in 0..(JOURNAL_QUEUE_MAX - 1)
           /\ tail \in 0..(JOURNAL_QUEUE_MAX - 1)
           /\ tail = (head + count) % JOURNAL_QUEUE_MAX)
    /\ [][EnqueueSucceeds => count' = count + 1]_vars
    /\ [][(\E t \in Callers : LogEnqueue(t)) /\ QueueFull => count' = count]_vars
    /\ [][FlusherDrains => count' = 0 /\ head' = tail]_vars

\* The queue is full again after a drain moved head off slot 0, with the
\* drained batch still in the writer's hands.
C34_Witness ==
    /\ count = JOURNAL_QUEUE_MAX
    /\ head = 1
    /\ tail = 1
    /\ flusher.pc = "w_lock"
    /\ Len(flusher.batch) = 1

(***************************************************************************)
(* The sync path against the batch path.                                   *)
(***************************************************************************)
\* The payload a single-entry write of this step hands to the writer.
StepPayload == NewPayload(Len(written) + 1, 1, "sane")

\* A batch write of one entry returns true: every step of it succeeded, or
\* the entry was written and the header write failed on every attempt
\* (journal_writer.c 511-518 only logs that).
BatchReturnsTrue ==
    \/ SeqBatch(<<StepPayload>>)
    \/ \E wr \in {"fail", "short"}, failed \in {0, HEADER_RETRIES} :
         /\ SeqBatchFault(<<StepPayload>>, 1, wr, failed)
         /\ journal_write_raw_faulty(disk, <<StepPayload>>, 1, wr, failed).ok

\* C35 as stated: every journal_write_raw of a one-entry batch that returns
\* true leaves the device as a successful journal_write_raw_sync of the same
\* payload would.
C35_BatchSuccessSameAsSync ==
    [][BatchReturnsTrue => disk' = journal_write_raw_sync(disk, StepPayload)]_vars

\* C35: from every header, a successful journal_write_raw_sync of a payload
\* and a journal_write_raw of a one-entry batch with that payload whose
\* header write succeeded leave the same device: the same slot written with
\* the same contents, the same persisted start_index and end_index.
C35_SyncSameAsPersistedBatch ==
    /\ [](\A k \in PayloadKinds, t \in 1..MaxTime :
            journal_write_raw_sync(disk, NewPayload(Len(written) + 1, t, k))
              = journal_write_raw(disk, <<NewPayload(Len(written) + 1, t, k)>>))
    /\ [][(Len(written') = Len(written) + 1)
            => /\ disk' = journal_write_raw_sync(disk, written'[Len(written')])
               /\ disk' = journal_write_raw(disk, <<written'[Len(written')]>>)]_vars

\* On a device that started with the full range [3, 2), a first write by
\* the batch path and a second write: the device is the one the sync path
\* leaves, the oldest entry evicted twice.
C35_Witness ==
    /\ budget.hdr0 = MakeHeader(3, 2)
    /\ Len(written) = 2
    /\ replayed_once
    /\ disk.hdr = MakeHeader(1, 0)
    /\ disk = journal_write_raw_sync(
                 journal_write_raw([FreshDevice EXCEPT !.hdr = budget.hdr0],
                                   <<written[1]>>),
                 written[2])

====
